---- MODULE Spec2Model ----
(***************************************************************************)
(* HightJS: request routing (router.ts, index.ts) and live-reload          *)
(* coordination (hotReload.ts).                                            *)
(*                                                                         *)
(* Strings are sequences of one-character strings, so that the pattern     *)
(* rewriting passes and the regular-expression matching are computed       *)
(* character by character, as the JavaScript engine does.                  *)
(***************************************************************************)
EXTENDS Integers, Sequences, FiniteSets, TLC

VARIABLES
    \* ---- HotReloadManager (packages/hightjs/src/hotReload.ts) ----
    clients,              \* keys of the clients map (accepted notification sockets)
    readyState,           \* readyState of every socket
    isShuttingDown,
    debounceTimers,       \* path -> TRUE when a debounce timer is armed
    isBuilding,
    buildCompleteResolve, \* 0 (null) or the wait whose resolve function is stored
    waits,                \* suspended/ended frontend branches of handleAnySrcChange
    lastBroadcast,        \* the last message notifyClients built, and its sweep
    burstKind,            \* history: the last watcher event for a path with an armed timer
    completions,          \* history: number of onBuildComplete calls
    trace,                \* history: the calls made by the last watcher handler step
    now,                  \* Date.now(), in ms
    beat,                 \* per socket: its pingTimer and lastPong
    \* ---- API route table and middleware chain (router.ts, index.ts) ----
    backendFs,            \* the backend routes directory on disk
    allBackendRoutes,
    loadedMiddlewares,
    chain,                \* one execution of executeMiddlewareChain
    allWebSocketRoutes,   \* socket route table
    \* ---- route lookup (router.ts) ----
    allRoutes,            \* page route table
    lookup,               \* the last lookup and its result
    reload,               \* the table rebuild in progress, statement by statement
    \* ---- request handler (index.ts) ----
    publicFiles,          \* pathnames p for which <dir>/public/p is a file
    hightFiles,           \* names n for which <dir>/.hight/n exists
    response,             \* the last request and how it was answered
    adapter,              \* FrameworkAdapterFactory.adapter is set
    hotReloadManager,     \* the server was created with a HotReloadManager (dev)
    upgraded,             \* the last upgrade request and what became of its socket
    wsConnections,        \* sockets accepted on user socket routes (router.ts)
    wsContext             \* what handleWebSocketConnection built and ran per socket

hotVars   == <<clients, readyState, isShuttingDown, debounceTimers, isBuilding,
               buildCompleteResolve, waits, lastBroadcast, burstKind, completions,
               trace, now, beat>>
apiVars   == <<backendFs, allBackendRoutes, loadedMiddlewares, chain, allWebSocketRoutes>>
matchVars == <<allRoutes, lookup, reload>>
dispVars  == <<publicFiles, hightFiles, response, adapter, hotReloadManager, upgraded,
               wsConnections, wsContext>>
vars      == <<hotVars, apiVars, matchVars, dispVars>>

(***************************************************************************)
(* Bounds of the model.                                                    *)
(***************************************************************************)
MaxWaits       == 2   \* frontend changes handled in one run
MaxCompletions == 2   \* onBuildComplete calls in one run
MaxNextCalls   == 2   \* calls of next() one middleware makes
TimeStep       == 10000   \* ms between two readings of the clock
MaxNow         == 90000   \* ms of one run
MaxLate        == 10000   \* ms a timer may fire after it is due
MaxReloadWaits == 1   \* frontend changes handled in one run with files of every class
MaxTable       == 2   \* routes in a lookup table

(***************************************************************************)
(* Strings.                                                                *)
(***************************************************************************)
RECURSIVE Join(_, _)
\* String.prototype.join for a sequence of strings.
Join(parts, sep) ==
    IF Len(parts) = 0 THEN <<>>
    ELSE IF Len(parts) = 1 THEN parts[1]
    ELSE parts[1] \o sep \o Join(Tail(parts), sep)

\* Does s contain t at position i?
HasAt(s, t, i) ==
    /\ i >= 1
    /\ i + Len(t) - 1 <= Len(s)
    /\ \A k \in 1..Len(t) : s[i + k - 1] = t[k]

\* String.prototype.includes
Includes(s, t) == \E i \in 1..(Len(s) + 1) : HasAt(s, t, i)

\* String.prototype.endsWith
EndsWith(s, t) == HasAt(s, t, Len(s) - Len(t) + 1)

\* String.prototype.startsWith
StartsWith(s, t) == HasAt(s, t, 1)

SLASH == <<"/">>

(***************************************************************************)
(* Pattern compilation: the chain of String.replace passes that turns a    *)
(* route pattern into the source of a regular expression.  A token is a    *)
(* character still to be read as regular-expression source ("ch") or the   *)
(* group a pass has put in place of a dynamic segment.                     *)
(***************************************************************************)
Raw(c)         == [t |-> "ch", c |-> c, name |-> <<>>]
Group(kind, n) == [t |-> kind, c |-> "", name |-> n]

ToTokens(pattern) == [i \in 1..Len(pattern) |-> Raw(pattern[i])]

\* Characters of the model's strings that \w does not match.
NonWordChars == {"/", "[", "]", ".", "-"}
IsWordChar(c) == c \notin NonWordChars

\* The tokens from i on spell str, character by character.
RawAt(toks, i, str) ==
    /\ i >= 1
    /\ i + Len(str) - 1 <= Len(toks)
    /\ \A k \in 1..Len(str) :
          /\ toks[i + k - 1].t = "ch"
          /\ toks[i + k - 1].c = str[k]

RECURSIVE WordRun(_, _)
\* Length of the run (\w+) of word characters that starts at token i.
WordRun(toks, i) ==
    IF i <= Len(toks) /\ toks[i].t = "ch" /\ IsWordChar(toks[i].c)
    THEN 1 + WordRun(toks, i + 1)
    ELSE 0

RECURSIVE RewriteFrom(_, _, _, _, _)
\* pattern.replace(/<open>(\w+)<close>/g, <group of kind>) from token i on:
\* leftmost matches, not overlapping, replaced text never rescanned.
RewriteFrom(toks, i, open, close, kind) ==
    IF i > Len(toks) THEN <<>>
    ELSE LET n == WordRun(toks, i + Len(open))
         IN  IF /\ RawAt(toks, i, open)
                /\ n >= 1
                /\ RawAt(toks, i + Len(open) + n, close)
             THEN <<Group(kind, [k \in 1..n |-> toks[i + Len(open) + k - 1].c])>>
                  \o RewriteFrom(toks, i + Len(open) + n + Len(close), open, close, kind)
             ELSE <<toks[i]>> \o RewriteFrom(toks, i + 1, open, close, kind)

Rewrite(toks, open, close, kind) == RewriteFrom(toks, 1, open, close, kind)

\* [[...param]] -> (?<param>.+)?
PassOptCatchAll(toks) == Rewrite(toks, <<"[", "[", ".", ".", ".">>, <<"]", "]">>, "optcatch")
\* [...param] -> (?<param>.+)
PassCatchAll(toks)    == Rewrite(toks, <<"[", ".", ".", ".">>, <<"]">>, "catch")
\* /[[param]] -> (?:/(?<param>[^/]+))?
PassOptSlashSeg(toks) == Rewrite(toks, <<"/", "[", "[">>, <<"]", "]">>, "optslashseg")
\* [[param]] -> (?<param>[^/]+)?
PassOptSeg(toks)      == Rewrite(toks, <<"[", "[">>, <<"]", "]">>, "optseg")
\* Variant of the last pass: [param] -> (?<param>.+)
PassSeg_AnyChars(toks) == Rewrite(toks, <<"[">>, <<"]">>, "catch")

\* [param] -> (?<param>[^/]+)
PassSeg(toks)         == Rewrite(toks, <<"[">>, <<"]">>, "seg")

\* The five passes of findMatchingRoute (page routes).
PageRegexPattern(pattern) ==
    PassSeg(PassOptSeg(PassOptSlashSeg(PassCatchAll(PassOptCatchAll(ToTokens(pattern))))))

\* The four passes of findMatchingBackendRoute (no pass for "/[[param]]").
BackendRegexPattern(pattern) ==
    PassSeg(PassOptSeg(PassCatchAll(PassOptCatchAll(ToTokens(pattern)))))

\* The four passes of findMatchingWebSocketRoute and extractWebSocketParams.
SocketRegexPattern(pattern) ==
    PassSeg(PassOptSeg(PassCatchAll(PassOptCatchAll(ToTokens(pattern)))))

(***************************************************************************)
(* new RegExp(`^${regexPattern}/?$`) and pathname.match(regex):            *)
(* a backtracking matcher with the engine's priorities (greedy             *)
(* quantifiers, an optional group tried present before absent).            *)
(***************************************************************************)
GroupNames(re) == {re[i].name : i \in {j \in 1..Len(re) : re[j].t # "ch"}}

\* new RegExp throws a SyntaxError when two groups carry the same name.
RegExpThrows(re) ==
    \E i, j \in 1..Len(re) :
        i # j /\ re[i].t # "ch" /\ re[j].t # "ch" /\ re[i].name = re[j].name

Undefined  == [def |-> FALSE, v |-> <<>>]
Captured(v) == [def |-> TRUE, v |-> v]
NoMatch    == [ok |-> FALSE, groups |-> <<>>]

RECURSIVE SegRun(_, _)
\* Length of the longest run [^/]+ can take at pos.
SegRun(s, pos) ==
    IF pos <= Len(s) /\ s[pos] # "/" THEN 1 + SegRun(s, pos + 1) ELSE 0

RECURSIVE MatchFrom(_, _, _, _, _)
RECURSIVE TryLen(_, _, _, _, _, _, _)

\* Group k takes len characters at at, longest first, and the rest must match.
TryLen(re, k, s, at, groups, name, len) ==
    IF len < 1 THEN NoMatch
    ELSE LET r == MatchFrom(re, k + 1, s, at + len,
                            [groups EXCEPT ![name] = Captured(SubSeq(s, at, at + len - 1))])
         IN  IF r.ok THEN r ELSE TryLen(re, k, s, at, groups, name, len - 1)

MatchFrom(re, k, s, pos, groups) ==
    IF k > Len(re)
    THEN \* /?$
         IF pos = Len(s) + 1 \/ (pos = Len(s) /\ s[pos] = "/")
         THEN [ok |-> TRUE, groups |-> groups]
         ELSE NoMatch
    ELSE LET tok == re[k] IN
         CASE tok.t = "ch" ->
                IF pos <= Len(s) /\ (tok.c = "." \/ s[pos] = tok.c)
                THEN MatchFrom(re, k + 1, s, pos + 1, groups)
                ELSE NoMatch
           [] tok.t = "seg" ->
                TryLen(re, k, s, pos, groups, tok.name, SegRun(s, pos))
           [] tok.t = "catch" ->
                TryLen(re, k, s, pos, groups, tok.name, Len(s) - pos + 1)
           [] tok.t = "optseg" ->
                LET r == TryLen(re, k, s, pos, groups, tok.name, SegRun(s, pos))
                IN  IF r.ok THEN r ELSE MatchFrom(re, k + 1, s, pos, groups)
           [] tok.t = "optcatch" ->
                LET r == TryLen(re, k, s, pos, groups, tok.name, Len(s) - pos + 1)
                IN  IF r.ok THEN r ELSE MatchFrom(re, k + 1, s, pos, groups)
           [] tok.t = "optslashseg" ->
                LET r == IF pos <= Len(s) /\ s[pos] = "/"
                         THEN TryLen(re, k, s, pos + 1, groups, tok.name, SegRun(s, pos + 1))
                         ELSE NoMatch
                IN  IF r.ok THEN r ELSE MatchFrom(re, k + 1, s, pos, groups)

\* pathname.match(regex): the groups of the match, every named group present
\* and undefined when it took no part in the match.
RegexMatch(re, pathname) ==
    MatchFrom(re, 1, pathname, 1, [n \in GroupNames(re) |-> Undefined])


(***************************************************************************)
(* Route lookup (router.ts).  The result of a lookup is the route's        *)
(* position in its table and the params; "throw" is the SyntaxError of     *)
(* new RegExp leaving the function.                                        *)
(***************************************************************************)
Found(i, groups) == [status |-> "match", index |-> i, params |-> groups]
NotFound         == [status |-> "null",  index |-> 0, params |-> <<>>]
Thrown(i)        == [status |-> "throw", index |-> i, params |-> <<>>]

RECURSIVE PageLoop(_, _, _)
\* The for loop of findMatchingRoute from route i on.
PageLoop(table, i, pathname) ==
    IF i > Len(table) THEN NotFound
    ELSE IF table[i].pattern = <<>> THEN PageLoop(table, i + 1, pathname)
    ELSE LET re == PageRegexPattern(table[i].pattern) IN
         IF RegExpThrows(re) THEN Thrown(i)
         ELSE LET m == RegexMatch(re, pathname) IN
              IF m.ok THEN Found(i, m.groups)
              ELSE PageLoop(table, i + 1, pathname)

findMatchingRoute(table, pathname) == PageLoop(table, 1, pathname)

RECURSIVE BackendLoop_StopsAtPattern(_, _, _, _)
\* Variant of the loop: the method is looked at after the pattern has matched,
\* and a route without a handler for it ends the lookup.
BackendLoop_StopsAtPattern(table, i, pathname, method) ==
    IF i > Len(table) THEN NotFound
    ELSE IF table[i].pattern = <<>>
         THEN BackendLoop_StopsAtPattern(table, i + 1, pathname, method)
    ELSE LET re == BackendRegexPattern(table[i].pattern) IN
         IF RegExpThrows(re) THEN Thrown(i)
         ELSE LET m == RegexMatch(re, pathname) IN
              IF m.ok THEN (IF method \in table[i].methods THEN Found(i, m.groups)
                            ELSE NotFound)
              ELSE BackendLoop_StopsAtPattern(table, i + 1, pathname, method)

RECURSIVE BackendLoop(_, _, _, _)
\* The for loop of findMatchingBackendRoute from route i on.
BackendLoop(table, i, pathname, method) ==
    IF i > Len(table) THEN NotFound
    ELSE IF table[i].pattern = <<>> \/ method \notin table[i].methods
         THEN BackendLoop(table, i + 1, pathname, method)
    ELSE LET re == BackendRegexPattern(table[i].pattern) IN
         IF RegExpThrows(re) THEN Thrown(i)
         ELSE LET m == RegexMatch(re, pathname) IN
              IF m.ok THEN Found(i, m.groups)
              ELSE BackendLoop(table, i + 1, pathname, method)

findMatchingBackendRoute(table, pathname, method) == BackendLoop(table, 1, pathname, method)

RECURSIVE SocketLoop(_, _, _)
\* The for loop of findMatchingWebSocketRoute from route i on.
SocketLoop(table, i, pathname) ==
    IF i > Len(table) THEN NotFound
    ELSE IF table[i].pattern = <<>> THEN SocketLoop(table, i + 1, pathname)
    ELSE LET re == SocketRegexPattern(table[i].pattern) IN
         IF RegExpThrows(re) THEN Thrown(i)
         ELSE LET m == RegexMatch(re, pathname) IN
              IF m.ok THEN Found(i, m.groups)
              ELSE SocketLoop(table, i + 1, pathname)

findMatchingWebSocketRoute(table, pathname) == SocketLoop(table, 1, pathname)


(***************************************************************************)
(* The backend routes directory and loadBackendRoutes (router.ts).         *)
(***************************************************************************)
\* path.join of two normalised paths and path.dirname (POSIX).
PathJoin(a, b) == IF b = <<>> THEN a ELSE a \o SLASH \o b

RECURSIVE LastSlash(_, _)
LastSlash(path, i) ==
    IF i < 1 THEN 0 ELSE IF path[i] = "/" THEN i ELSE LastSlash(path, i - 1)

Dirname(path) == SubSeq(path, 1, LastSlash(path, Len(path)) - 1)

\* userBackendRoutesDir: path.join(dir, 'src', 'backend', 'routes'), dir absolute.
BackendRoutesDir == <<"/", "a", "p", "p", "/", "s", "r", "c", "/", "b", "a", "c", "k", "e", "n", "d", "/", "r", "o", "u", "t", "e", "s">>

\* What require() of a file gives.
NoRoute == [pattern |-> <<>>, methods |-> {}, hasMiddleware |-> FALSE, middleware |-> <<>>]
Module(throws, defaultKind, fns, named, route) ==
    [throws |-> throws,           \* require throws
     defaultKind |-> defaultKind, \* typeof module.default: function, array, object, none
     fns |-> fns,                 \* the default function, or the functions of the default array
     named |-> named,             \* named exports that are functions, in key order
     route |-> route]             \* the default object of a route file
NoModule == Module(FALSE, "none", <<>>, <<>>, NoRoute)

MiddlewareFunction(f) == Module(FALSE, "function", <<f>>, <<>>, NoRoute)
MiddlewareArray(fs)   == Module(FALSE, "array", fs, <<>>, NoRoute)
MiddlewareNamed(fs)   == Module(FALSE, "none", <<>>, fs, NoRoute)
MiddlewareBroken      == Module(TRUE, "none", <<>>, <<>>, NoRoute)
RouteModule(pattern, methods, hasMiddleware, middleware) ==
    Module(FALSE, "object", <<>>, <<>>,
           [pattern |-> pattern, methods |-> methods,
            hasMiddleware |-> hasMiddleware, middleware |-> middleware])

\* Directory entries, in the order readdirSync lists them.
File(name, module) == [name |-> name, isDir |-> FALSE, entries |-> <<>>, module |-> module]
Dir(name, entries) == [name |-> name, isDir |-> TRUE, entries |-> entries, module |-> NoModule]

DotTs       == <<".", "t", "s">>
DotTsx      == <<".", "t", "s", "x">>
MiddlewareS == <<"m", "i", "d", "d", "l", "e", "w", "a", "r", "e">>
isTypeScript(name) == EndsWith(name, DotTs) \/ EndsWith(name, DotTsx)

\* Map.prototype.set / get on a map held as a function.
MapSet(map, key, value) ==
    [k \in (DOMAIN map) \cup {key} |-> IF k = key THEN value ELSE map[k]]
EmptyMap == [k \in {} |-> <<>>]

RECURSIVE scanDirectory(_, _, _)
\* scanDirectory(dir, baseDir) over the entries of dir: acc holds routeFiles (the
\* relative path and the module of each route file, in discovery order) and
\* middlewareFiles (directory -> the middleware file found there).
scanDirectory(entries, baseDir, acc) ==
    IF entries = <<>> THEN acc
    ELSE LET entry        == Head(entries)
             relativePath == IF baseDir # <<>> THEN PathJoin(baseDir, entry.name)
                                              ELSE entry.name
             acc1 ==
               IF entry.isDir
               THEN scanDirectory(entry.entries, relativePath, acc)
               ELSE IF ~isTypeScript(entry.name) THEN acc
               ELSE IF StartsWith(entry.name, MiddlewareS)
               THEN [acc EXCEPT !.middlewareFiles =
                        MapSet(@, Dirname(PathJoin(BackendRoutesDir, relativePath)),
                               entry.module)]
               ELSE [acc EXCEPT !.routeFiles =
                        Append(@, [file |-> relativePath, module |-> entry.module])]
         IN  scanDirectory(Tail(entries), baseDir, acc1)

\* The middlewares a middleware module exports (lines 392-406).
ExportedMiddlewares(module) ==
    IF module.defaultKind = "function" THEN module.fns
    ELSE IF module.defaultKind = "array" THEN module.fns
    ELSE module.named

\* The pre-load pass over middlewareFiles: the loadedMiddlewares map.
PreloadMiddlewares(middlewareFiles) ==
    LET kept == {d \in DOMAIN middlewareFiles :
                    /\ ~middlewareFiles[d].throws
                    /\ Len(ExportedMiddlewares(middlewareFiles[d])) > 0}
    IN  [d \in kept |-> ExportedMiddlewares(middlewareFiles[d])]

\* Variant of the middleware step: a directory without a middleware list takes
\* the list of its parent directory.
RouteConfig_InheritsParent(file, module, loaded) ==
    LET routeDir == Dirname(PathJoin(BackendRoutesDir, file))
        from     == IF routeDir \in DOMAIN loaded THEN routeDir ELSE Dirname(routeDir)
        inherits == /\ ~module.route.hasMiddleware
                    /\ from \in DOMAIN loaded
                    /\ Len(loaded[from]) > 0
    IN  [pattern       |-> module.route.pattern,
         methods       |-> module.route.methods,
         hasMiddleware |-> module.route.hasMiddleware \/ inherits,
         middleware    |-> IF inherits THEN loaded[from] ELSE module.route.middleware,
         source        |-> file]

\* Variant of the middleware step: the directory's list replaces the route's own.
RouteConfig_FolderOverrides(file, module, loaded) ==
    LET routeDir == Dirname(PathJoin(BackendRoutesDir, file))
        inherits == /\ routeDir \in DOMAIN loaded
                    /\ Len(loaded[routeDir]) > 0
    IN  [pattern       |-> module.route.pattern,
         methods       |-> module.route.methods,
         hasMiddleware |-> module.route.hasMiddleware \/ inherits,
         middleware    |-> IF inherits THEN loaded[routeDir] ELSE module.route.middleware,
         source        |-> file]

\* The route a route file contributes: routeConfig after the middleware step.
\* source is history: the file the route came from.
RouteConfig(file, module, loaded) ==
    LET routeDir == Dirname(PathJoin(BackendRoutesDir, file))
        inherits == /\ ~module.route.hasMiddleware
                    /\ routeDir \in DOMAIN loaded
                    /\ Len(loaded[routeDir]) > 0
    IN  [pattern       |-> module.route.pattern,
         methods       |-> module.route.methods,
         hasMiddleware |-> module.route.hasMiddleware \/ inherits,
         middleware    |-> IF inherits THEN loaded[routeDir] ELSE module.route.middleware,
         source        |-> file]

RECURSIVE LoadRouteFiles(_, _)
\* The loop over routeFiles that builds the loaded array.
LoadRouteFiles(routeFiles, loaded) ==
    IF routeFiles = <<>> THEN <<>>
    ELSE LET f == Head(routeFiles)
             rest == LoadRouteFiles(Tail(routeFiles), loaded)
         IN  IF ~f.module.throws /\ f.module.defaultKind = "object"
                /\ f.module.route.pattern # <<>>
             THEN <<RouteConfig(f.file, f.module, loaded)>> \o rest
             ELSE rest

\* loadBackendRoutes(backendRoutesDir) for a directory that exists.
LoadBackendRoutes ==
    LET scan   == scanDirectory(backendFs, <<>>,
                                [routeFiles |-> <<>>, middlewareFiles |-> EmptyMap])
        loaded == PreloadMiddlewares(scan.middlewareFiles)
    IN  /\ loadedMiddlewares' = loaded
        /\ allBackendRoutes' = LoadRouteFiles(scan.routeFiles, loaded)
        /\ UNCHANGED <<backendFs, chain, allWebSocketRoutes, hotVars, matchVars, dispVars>>

RECURSIVE processWebSocketRoutes(_)
\* processWebSocketRoutes(): the routes of the API table that have a WS handler.
processWebSocketRoutes(routes) ==
    IF routes = <<>> THEN <<>>
    ELSE LET route == Head(routes) IN
         (IF "WS" \in route.methods
          THEN <<[pattern |-> route.pattern, middleware |-> route.middleware]>>
          ELSE <<>>) \o processWebSocketRoutes(Tail(routes))

\* The callback hweb registers with onBackendApiChange:
\* loadBackendRoutes(userBackendRoutesDir); processWebSocketRoutes().
BackendApiChangeCallback ==
    LET scan   == scanDirectory(backendFs, <<>>,
                                [routeFiles |-> <<>>, middlewareFiles |-> EmptyMap])
        loaded == PreloadMiddlewares(scan.middlewareFiles)
        routes == LoadRouteFiles(scan.routeFiles, loaded)
    IN  /\ loadedMiddlewares' = loaded
        /\ allBackendRoutes' = routes
        /\ allWebSocketRoutes' = processWebSocketRoutes(routes)
        /\ UNCHANGED <<backendFs, chain>>


(***************************************************************************)
(* HotReloadManager (hotReload.ts).                                        *)
(***************************************************************************)
\* Files under src/ the watcher reports (POSIX separators).
FilePage == <<"s", "r", "c", "/", "w", "e", "b", "/", "r", "o", "u", "t", "e", "s", "/", "a", ".", "t", "s", "x">>
FileApi  == <<"s", "r", "c", "/", "b", "a", "c", "k", "e", "n", "d", "/", "r", "o", "u", "t", "e", "s", "/", "b", ".", "t", "s">>
FileLib  == <<"s", "r", "c", "/", "l", "i", "b", "/", "u", ".", "t", "s">>
FileApiTsx == <<"s", "r", "c", "/", "b", "a", "c", "k", "e", "n", "d", "/", "v", ".", "t", "s", "x">>
Files    == {FilePage, FileApi, FileLib, FileApiTsx}

\* Sockets that may connect to /hweb-hotreload/.
Conns == {"c1", "c2", "c3"}

\* path.join('src', 'web', 'routes'), path.join('src', 'web', 'components'),
\* path.join('src', 'backend')
SrcWebRoutes     == <<"s", "r", "c", "/", "w", "e", "b", "/", "r", "o", "u", "t", "e", "s">>
SrcWebComponents == <<"s", "r", "c", "/", "w", "e", "b", "/", "c", "o", "m", "p", "o", "n", "e", "n", "t", "s">>
SrcBackend       == <<"s", "r", "c", "/", "b", "a", "c", "k", "e", "n", "d">>
LayoutTsx        == <<"l", "a", "y", "o", "u", "t", ".", "t", "s", "x">>
NotFoundTsx      == <<"n", "o", "t", "-", "f", "o", "u", "n", "d", ".", "t", "s", "x">>

\* Variant of the frontend rules: the directory and file-name rules only.
isFrontendFile_PathRulesOnly(filePath) ==
    \/ Includes(filePath, SrcWebRoutes)
    \/ Includes(filePath, SrcWebComponents)
    \/ Includes(filePath, LayoutTsx)
    \/ Includes(filePath, NotFoundTsx)

isFrontendFile(filePath) ==
    \/ Includes(filePath, SrcWebRoutes)
    \/ Includes(filePath, SrcWebComponents)
    \/ Includes(filePath, LayoutTsx)
    \/ Includes(filePath, NotFoundTsx)
    \/ EndsWith(filePath, DotTsx)

isBackendFile(filePath) == Includes(filePath, SrcBackend) /\ ~isFrontendFile(filePath)

NoFile      == <<>>
NoBroadcast == [type |-> "none", file |-> NoFile, event |-> "none", kind |-> "none",
                to |-> {}, threw |-> {}, dead |-> {}]

\* The browser client of getClientScript.  handleFrontendReload(data): a full
\* reload for a layout, not-found or .css file, a hot update for a file under
\* /routes/, a full reload for any other file.
handleFrontendReload(file) ==
    IF file = NoFile THEN "reload"
    ELSE IF \/ Includes(file, LayoutTsx)
            \/ Includes(file, NotFoundTsx)
            \/ EndsWith(file, <<".", "c", "s", "s">>)
    THEN "reload"
    ELSE IF Includes(file, <<"/", "r", "o", "u", "t", "e", "s", "/">>) THEN "hmr"
    ELSE "reload"

\* ws.onmessage: the switch over message.type; a type without a case does
\* nothing.
onmessage(message) ==
    IF message.type = "frontend-reload" THEN handleFrontendReload(message.file)
    ELSE IF message.type = "backend-api-reload" THEN "reload"
    ELSE IF message.type = "server-restart" THEN "log"
    ELSE IF message.type = "server-ready" THEN "reload"
    ELSE IF message.type = "frontend-error" THEN "log"
    ELSE IF message.type = "hmr-update" THEN "hmr"
    ELSE "none"

\* Variant of notifyClients: the sweep ends at the first send() that throws, and
\* only the sockets that threw are removed.
NotifyClients_AbortsOnThrow(cl, rs, shutting, last, type, file, event, kind, throwing) ==
    IF shutting \/ cl = {}
    THEN [clients |-> cl, last |-> last]
    ELSE LET threw  == {c \in cl : rs[c] = "OPEN" /\ c \in throwing}
             sentTo == IF threw # {} THEN {}
                       ELSE {c \in cl : rs[c] = "OPEN"}
         IN  [clients |-> cl \ threw,
              last    |-> [type |-> type, file |-> file, event |-> event, kind |-> kind,
                           to |-> sentTo, threw |-> threw, dead |-> threw]]

\* notifyClients(type, data): the clients map and the broadcast record after the
\* sweep.  throwing is the set of sockets whose send() throws in this sweep;
\* kind is history (the watcher event behind the message), not part of the
\* message, and so are to (the sockets send() succeeded on), threw and dead (the
\* deadClients array).
NotifyClients(cl, rs, shutting, last, type, file, event, kind, throwing) ==
    IF shutting \/ cl = {}
    THEN [clients |-> cl, last |-> last]
    ELSE LET sentTo      == {c \in cl : rs[c] = "OPEN" /\ c \notin throwing}
             deadClients == cl \ sentTo
         IN  [clients |-> cl \ deadClients,
              last    |-> [type |-> type, file |-> file, event |-> event, kind |-> kind,
                           to |-> sentTo,
                           threw |-> {c \in cl : rs[c] = "OPEN" /\ c \in throwing},
                           dead |-> deadClients]]

\* A wait: the frontend branch of one handleAnySrcChange call, suspended at
\* await Promise.race([buildPromise, timeoutPromise]) or past it.
NewWait(file, kind, overlap, seen) ==
    [file    |-> file,
     kind    |-> kind,        \* history: kind of the last watcher event of the burst
     state   |-> "pending",   \* pending, resolved, rejected (continuation queued), done
     timer   |-> TRUE,        \* the 30 s setTimeout is armed
     trigger |-> 1,           \* calls of frontendChangeCallback before the await
     reloads |-> 0,           \* calls of notifyClients('frontend-reload')
     overlap |-> overlap,     \* history: another wait was pending when this one began
     endedBy |-> "none",      \* history: "complete" or "timeout" once the wait has ended
     endedAt |-> seen]         \* history: onBuildComplete calls seen when it ended

Pending(w)      == waits[w].state = "pending"
Queued(w)       == waits[w].state \in {"resolved", "rejected"}
\* No promise continuation is queued: the event loop may take the next event.
NoMicrotask     == \A w \in 1..Len(waits) : ~Queued(w)

\* The calls a watcher handler makes, in order.
NoTrace == [file |-> NoFile, event |-> "none", calls |-> <<>>]
Trace(file, event, calls) == [file |-> file, event |-> event, calls |-> calls]
Call(fn)     == [fn |-> fn, arg |-> ""]
Notify(type) == [fn |-> "notifyClients", arg |-> type]

\* setInterval(..., 30000) and the age of lastPong that ends a connection.
HeartbeatInterval == 30000
PongLimit         == 60000

\* A socket without a clientConnection, and the clientConnection of a socket
\* accepted at time t.  due is when pingTimer fires next; unanswered (a ping is
\* out without its pong), missed (a ping was still unanswered at a tick),
\* terminated (the heartbeat called ws.terminate()) and last (time of the accept
\* or of the last ping) are history.
NoBeat == [armed |-> FALSE, due |-> 0, lastPong |-> 0, unanswered |-> FALSE,
           missed |-> FALSE, terminated |-> FALSE, last |-> 0]
NewBeat(t) == [armed |-> TRUE, due |-> t + HeartbeatInterval, lastPong |-> t,
               unanswered |-> FALSE, missed |-> FALSE, terminated |-> FALSE, last |-> t]
\* Variant of cleanupClient: the entry is deleted, its interval is not cleared.
cleanupClient_KeepsTimer(b, removed) ==
    [c \in DOMAIN b |-> IF c \in removed THEN [NoBeat EXCEPT !.armed = b[c].armed]
                                          ELSE b[c]]

\* cleanupClient(ws) for every socket of removed.
cleanupClient(b, removed) == [c \in DOMAIN b |-> IF c \in removed THEN NoBeat ELSE b[c]]

HotIdle ==
    /\ trace = NoTrace
    /\ now = 0
    /\ beat = [c \in Conns |-> NoBeat]
    /\ clients = {}
    /\ readyState = [c \in Conns |-> "NONE"]
    /\ isShuttingDown = FALSE
    /\ debounceTimers = [p \in Files |-> FALSE]
    /\ isBuilding = FALSE
    /\ buildCompleteResolve = 0
    /\ waits = <<>>
    /\ lastBroadcast = NoBroadcast
    /\ burstKind = [p \in Files |-> "none"]
    /\ completions = 0

\* Variant of the accept path: a socket is accepted whatever isShuttingDown.
Connect_AcceptsAfterStop(c) ==
    /\ NoMicrotask
    /\ readyState[c] = "NONE"
    /\ readyState' = [readyState EXCEPT ![c] = "OPEN"]
    /\ clients' = clients \cup {c}
    /\ beat' = [beat EXCEPT ![c] = NewBeat(now)]
    /\ UNCHANGED <<isShuttingDown, debounceTimers, isBuilding, buildCompleteResolve,
                   waits, lastBroadcast, burstKind, completions>>
    /\ UNCHANGED <<trace, now>>
    /\ UNCHANGED <<apiVars, matchVars, dispVars>>

\* handleUpgrade and the 'connection' handler of setupWebSocketServer.
Connect(c) ==
    /\ NoMicrotask
    /\ readyState[c] = "NONE"
    /\ IF isShuttingDown
       THEN UNCHANGED <<clients, readyState, beat>>
       ELSE /\ readyState' = [readyState EXCEPT ![c] = "OPEN"]
            /\ clients' = clients \cup {c}
            /\ beat' = [beat EXCEPT ![c] = NewBeat(now)]
    /\ UNCHANGED <<isShuttingDown, debounceTimers, isBuilding, buildCompleteResolve,
                   waits, lastBroadcast, burstKind, completions>>
    /\ UNCHANGED <<trace, now>>
    /\ UNCHANGED <<apiVars, matchVars, dispVars>>

\* The peer or the network ends a socket: readyState leaves OPEN before the
\* 'close' event is delivered.
SocketClosing(c) ==
    /\ NoMicrotask
    /\ readyState[c] = "OPEN"
    /\ readyState' = [readyState EXCEPT ![c] = "CLOSING"]
    /\ UNCHANGED <<clients, isShuttingDown, debounceTimers, isBuilding,
                   buildCompleteResolve, waits, lastBroadcast, burstKind, completions>>
    /\ UNCHANGED <<trace, now, beat>>
    /\ UNCHANGED <<apiVars, matchVars, dispVars>>

\* ws.on('close'): cleanupClient(ws).
OnClose(c) ==
    /\ NoMicrotask
    /\ readyState[c] = "CLOSING"
    /\ readyState' = [readyState EXCEPT ![c] = "NONE"]
    /\ clients' = clients \ {c}
    /\ UNCHANGED <<isShuttingDown, debounceTimers, isBuilding, buildCompleteResolve,
                   waits, lastBroadcast, burstKind, completions>>
    /\ beat' = cleanupClient(beat, {c})
    /\ UNCHANGED <<trace, now>>
    /\ UNCHANGED <<apiVars, matchVars, dispVars>>

\* watcher.on('change' | 'add', debouncedChange): the function debounce returns.
WatcherEvent(p, kind) ==
    /\ NoMicrotask
    /\ ~isShuttingDown
    /\ debounceTimers' = [debounceTimers EXCEPT ![p] = TRUE]
    /\ burstKind' = [burstKind EXCEPT ![p] = kind]
    /\ UNCHANGED <<clients, readyState, isShuttingDown, isBuilding, buildCompleteResolve,
                   waits, lastBroadcast, completions>>
    /\ UNCHANGED <<trace, now, beat>>
    /\ UNCHANGED <<apiVars, matchVars, dispVars>>

\* Variant of the unlink handler: the removal goes through debounce.
WatcherUnlink_Debounced(p) ==
    /\ NoMicrotask
    /\ ~isShuttingDown
    /\ debounceTimers' = [debounceTimers EXCEPT ![p] = TRUE]
    /\ trace' = Trace(p, "unlink", <<>>)
    /\ UNCHANGED <<clients, readyState, isShuttingDown, isBuilding, buildCompleteResolve,
                   waits, lastBroadcast, burstKind, completions, now, beat>>
    /\ UNCHANGED <<apiVars, matchVars, dispVars>>

\* watcher.on('unlink', ...)
WatcherUnlink(p) ==
    /\ NoMicrotask
    /\ ~isShuttingDown
    /\ \E throwing \in SUBSET {c \in clients : readyState[c] = "OPEN"} :
         LET n == NotifyClients(clients, readyState, isShuttingDown, lastBroadcast,
                                "src-reload", p, "unlink", "unlink", throwing)
         IN  /\ clients' = n.clients
             /\ lastBroadcast' = n.last
             /\ beat' = cleanupClient(beat, clients \ n.clients)
    /\ UNCHANGED <<readyState, isShuttingDown, debounceTimers, isBuilding,
                   buildCompleteResolve, waits, completions>>
    /\ burstKind' = IF debounceTimers[p] THEN [burstKind EXCEPT ![p] = "unlink"]
                    ELSE burstKind
    /\ trace' = Trace(p, "unlink", <<Call("clearFileCache"), Call("clearBackendCache"),
                                     Call("frontendChangeCallback"), Call("backendApiChangeCallback"),
                                     Notify("src-reload")>>)
    /\ BackendApiChangeCallback
    /\ UNCHANGED now
    /\ UNCHANGED <<matchVars, dispVars>>


\* Variant of the timer callback: a change is held back while a build is awaited.
MayFire_NotWhileBuilding(p) == NoMicrotask /\ debounceTimers[p] /\ ~isBuilding

\* The armed debounce timer of p may fire as soon as the event loop is free: the
\* callback calls handleAnySrcChange whatever the build state.
MayFire(p) == NoMicrotask /\ debounceTimers[p]

\* The timer set by debounce fires: debounceTimers.delete(key), then the
\* synchronous part of handleAnySrcChange(filePath), up to its first await.
DebounceFire(p) ==
    /\ MayFire(p)
    /\ debounceTimers' = [debounceTimers EXCEPT ![p] = FALSE]
    /\ burstKind' = [burstKind EXCEPT ![p] = "none"]
    /\ IF isFrontendFile(p)
       THEN /\ Len(waits) < MaxWaits
            /\ isBuilding' = TRUE
            /\ buildCompleteResolve' = Len(waits) + 1
            /\ waits' = Append(waits, NewWait(p, burstKind[p],
                                              \E v \in 1..Len(waits) : Pending(v),
                                              completions))
            /\ trace' = Trace(p, "change", <<Call("clearFileCache"), Call("clearBackendCache"),
                                             Call("frontendChangeCallback")>>)
            /\ UNCHANGED <<clients, lastBroadcast, beat, apiVars>>
       ELSE /\ \E throwing \in SUBSET {c \in clients : readyState[c] = "OPEN"} :
                 LET n == NotifyClients(clients, readyState, isShuttingDown, lastBroadcast,
                                        IF isBackendFile(p) THEN "backend-api-reload"
                                                            ELSE "src-reload",
                                        p, "change", burstKind[p], throwing)
                 IN  /\ clients' = n.clients
                     /\ lastBroadcast' = n.last
                     /\ beat' = cleanupClient(beat, clients \ n.clients)
            /\ trace' = Trace(p, "change",
                               IF isBackendFile(p)
                               THEN <<Call("clearFileCache"), Call("clearBackendCache"),
                                      Call("backendApiChangeCallback"),
                                      Notify("backend-api-reload")>>
                               ELSE <<Call("clearFileCache"), Call("clearBackendCache"),
                                      Call("frontendChangeCallback"), Call("backendApiChangeCallback"),
                                      Notify("src-reload")>>)
            /\ BackendApiChangeCallback
            /\ UNCHANGED <<isBuilding, buildCompleteResolve, waits>>
    /\ UNCHANGED <<readyState, isShuttingDown, completions>>
    /\ UNCHANGED now
    /\ UNCHANGED <<matchVars, dispVars>>

\* onBuildComplete(success), called by the bundler at the end of every build.
OnBuildComplete(success) ==
    /\ NoMicrotask
    /\ completions < MaxCompletions
    /\ completions' = completions + 1
    /\ waits' = IF buildCompleteResolve # 0 /\ Pending(buildCompleteResolve)
                THEN [waits EXCEPT ![buildCompleteResolve].state = "resolved"]
                ELSE waits
    /\ buildCompleteResolve' = 0
    /\ isBuilding' = FALSE
    /\ \E throwing \in SUBSET {c \in clients : readyState[c] = "OPEN"} :
         LET n == NotifyClients(clients, readyState, isShuttingDown, lastBroadcast,
                                IF success THEN "build-complete" ELSE "build-error",
                                NoFile, "none", "none", throwing)
         IN  /\ clients' = n.clients
             /\ lastBroadcast' = n.last
             /\ beat' = cleanupClient(beat, clients \ n.clients)
    /\ UNCHANGED <<readyState, isShuttingDown, debounceTimers, burstKind>>
    /\ UNCHANGED <<trace, now>>
    /\ UNCHANGED <<apiVars, matchVars, dispVars>>

\* The 30 s timer of wait w fires and rejects timeoutPromise.  The timers have the
\* same delay, so they fire in the order in which they were set.
BuildTimeout(w) ==
    /\ NoMicrotask
    /\ waits[w].timer
    /\ \A v \in 1..(w - 1) : ~waits[v].timer
    /\ waits' = [waits EXCEPT ![w].timer = FALSE,
                              ![w].state = IF Pending(w) THEN "rejected" ELSE @]
    /\ UNCHANGED <<clients, readyState, isShuttingDown, debounceTimers, isBuilding,
                   buildCompleteResolve, lastBroadcast, burstKind, completions>>
    /\ UNCHANGED <<trace, now, beat>>
    /\ UNCHANGED <<apiVars, matchVars, dispVars>>

\* Variant of the continuation: the catch block (timeout) does not broadcast.
Continue_SilentOnTimeout(w) ==
    /\ Queued(w)
    /\ waits' = [waits EXCEPT ![w].state = "done",
                              ![w].reloads = IF waits[w].state = "resolved" THEN @ + 1 ELSE @,
                              ![w].endedBy = IF waits[w].state = "resolved"
                                             THEN "complete" ELSE "timeout",
                              ![w].endedAt = completions]
    /\ isBuilding' = FALSE
    /\ buildCompleteResolve' = 0
    /\ UNCHANGED <<clients, lastBroadcast>>
    /\ UNCHANGED <<readyState, isShuttingDown, debounceTimers, burstKind, completions>>
    /\ trace' = Trace(waits[w].file, "continuation",
                       IF waits[w].state = "resolved"
                       THEN <<Call("frontendChangeCallback"), Notify("frontend-reload")>>
                       ELSE <<Call("frontendChangeCallback")>>)
    /\ UNCHANGED <<now, beat>>
    /\ UNCHANGED <<apiVars, matchVars, dispVars>>

\* The continuation of handleAnySrcChange after the await: the try or the catch
\* block (the same two calls), then the finally block.
Continue(w) ==
    /\ Queued(w)
    /\ waits' = [waits EXCEPT ![w].state = "done",
                              ![w].reloads = @ + 1,
                              ![w].endedBy = IF waits[w].state = "resolved"
                                             THEN "complete" ELSE "timeout",
                              ![w].endedAt = completions]
    /\ \E throwing \in SUBSET {c \in clients : readyState[c] = "OPEN"} :
         LET n == NotifyClients(clients, readyState, isShuttingDown, lastBroadcast,
                                "frontend-reload", waits[w].file, "change",
                                waits[w].kind, throwing)
         IN  /\ clients' = n.clients
             /\ lastBroadcast' = n.last
             /\ beat' = cleanupClient(beat, clients \ n.clients)
    /\ isBuilding' = FALSE
    /\ buildCompleteResolve' = 0
    /\ UNCHANGED <<readyState, isShuttingDown, debounceTimers, burstKind, completions>>
    /\ trace' = Trace(waits[w].file, "continuation",
                       <<Call("frontendChangeCallback"), Notify("frontend-reload")>>)
    /\ UNCHANGED now
    /\ UNCHANGED <<apiVars, matchVars, dispVars>>

\* stop()
Stop ==
    /\ NoMicrotask
    /\ ~isShuttingDown
    /\ isShuttingDown' = TRUE
    /\ debounceTimers' = [p \in Files |-> FALSE]
    /\ burstKind' = [p \in Files |-> "none"]
    /\ readyState' = [c \in Conns |->
                        IF c \in clients /\ readyState[c] = "OPEN" THEN "CLOSING"
                        ELSE readyState[c]]
    /\ clients' = {}
    /\ UNCHANGED <<isBuilding, buildCompleteResolve, waits, lastBroadcast, completions>>
    /\ beat' = cleanupClient(beat, clients)
    /\ UNCHANGED <<trace, now>>
    /\ UNCHANGED <<apiVars, matchVars, dispVars>>

\* Variant of the staleness test: one interval without a pong ends the connection.
Stale_AtInterval(lastPong) == now - lastPong >= HeartbeatInterval

\* Date.now() - client.lastPong > 60000
Stale(lastPong) == now - lastPong > PongLimit

\* The callback of pingTimer for socket c, and its rescheduling.
HeartbeatTick(c) ==
    /\ beat[c].armed
    /\ now >= beat[c].due
    /\ IF c \in clients /\ readyState[c] = "OPEN"
       THEN IF Stale(beat[c].lastPong)
            THEN /\ readyState' = [readyState EXCEPT ![c] = "CLOSING"]
                 /\ beat' = [beat EXCEPT ![c].due = now + HeartbeatInterval,
                                          ![c].missed = @ \/ beat[c].unanswered,
                                          ![c].terminated = TRUE]
            ELSE /\ beat' = [beat EXCEPT ![c].due = now + HeartbeatInterval,
                                          ![c].missed = @ \/ beat[c].unanswered,
                                          ![c].unanswered = TRUE,
                                          ![c].last = now]
                 /\ UNCHANGED readyState
       ELSE /\ beat' = [beat EXCEPT ![c].due = now + HeartbeatInterval]
            /\ UNCHANGED readyState
    /\ UNCHANGED <<clients, isShuttingDown, debounceTimers, isBuilding,
                   buildCompleteResolve, waits, lastBroadcast, burstKind, completions,
                   trace, now>>
    /\ UNCHANGED <<apiVars, matchVars, dispVars>>

\* ws.on('pong'): the peer's answer to a ping arrives.
Pong(c) ==
    /\ beat[c].unanswered
    /\ readyState[c] = "OPEN"
    /\ beat' = IF c \in clients
               THEN [beat EXCEPT ![c].lastPong = now, ![c].unanswered = FALSE]
               ELSE [beat EXCEPT ![c].unanswered = FALSE]
    /\ UNCHANGED <<clients, readyState, isShuttingDown, debounceTimers, isBuilding,
                   buildCompleteResolve, waits, lastBroadcast, burstKind, completions,
                   trace, now>>
    /\ UNCHANGED <<apiVars, matchVars, dispVars>>

\* Time passes; a timer fires at most MaxLate after it is due.
Advance ==
    /\ now + TimeStep <= MaxNow
    /\ \A c \in Conns : beat[c].armed => now + TimeStep <= beat[c].due + MaxLate
    /\ now' = now + TimeStep
    /\ UNCHANGED <<clients, readyState, isShuttingDown, debounceTimers, isBuilding,
                   buildCompleteResolve, waits, lastBroadcast, burstKind, completions,
                   trace, beat>>
    /\ UNCHANGED <<apiVars, matchVars, dispVars>>

\* Two browsers connected over time, their heartbeats and pongs.
BeatConns == {"c1", "c2"}
BeatNext ==
    \/ \E c \in BeatConns : Connect(c)
    \/ \E c \in BeatConns : SocketClosing(c)
    \/ \E c \in BeatConns : OnClose(c)
    \/ \E c \in BeatConns : HeartbeatTick(c)
    \/ \E c \in BeatConns : Pong(c)
    \/ Advance
    \/ Stop

\* The manager with one browser connected; frontend, backend and other files
\* change and are removed.
ReloadFiles == {FileApiTsx, FileApi, FileLib}
ReloadNext ==
    \/ Connect("c1")
    \/ \E p \in ReloadFiles : WatcherEvent(p, "change")
    \/ WatcherUnlink(FileLib)
    \/ \E p \in ReloadFiles :
         (isFrontendFile(p) => Len(waits) < MaxReloadWaits) /\ DebounceFire(p)
    \/ OnBuildComplete(TRUE)
    \/ \E w \in 1..Len(waits) : BuildTimeout(w)
    \/ \E w \in 1..Len(waits) : Continue(w)

\* The manager with one browser connected and a page file changing.
HotNext ==
    \/ Connect("c1")
    \/ SocketClosing("c1")
    \/ OnClose("c1")
    \/ WatcherEvent(FilePage, "change")
    \/ DebounceFire(FilePage)
    \/ \E success \in BOOLEAN : OnBuildComplete(success)
    \/ \E w \in 1..Len(waits) : BuildTimeout(w)
    \/ \E w \in 1..Len(waits) : Continue(w)
    \/ Stop

\* The fan-out channel with several browsers, files outside the frontend changing.
FanoutNext ==
    \/ \E c \in Conns : Connect(c)
    \/ \E c \in Conns : SocketClosing(c)
    \/ \E c \in Conns : OnClose(c)
    \/ \E kind \in {"change", "add"} : WatcherEvent(FileLib, kind)
    \/ WatcherUnlink(FileLib)
    \/ DebounceFire(FileLib)
    \/ Stop

\* The watcher with one browser connected, files outside the frontend changing
\* and being removed.
WatchNext ==
    \/ Connect("c1")
    \/ SocketClosing("c1")
    \/ OnClose("c1")
    \/ \E p \in {FileApi, FileLib}, kind \in {"change", "add"} : WatcherEvent(p, kind)
    \/ \E p \in {FileApi, FileLib} : WatcherUnlink(p)
    \/ \E p \in {FileApi, FileLib} : DebounceFire(p)
    \/ Stop

(***************************************************************************)
(* executeMiddlewareChain (index.ts) and the API step of the request       *)
(* handler.                                                                *)
(***************************************************************************)
\* What a middleware does when it is invoked: it calls next() calls times, one
\* call after the other, awaiting each, and returns its own response when it made
\* no call, or else the response of its last call, wrapped by itself when wrap
\* holds.  With throws it throws where it would return.  An error coming out of
\* an awaited next() leaves the middleware at once.
Behaviours ==
    {[calls |-> n, wrap |-> w, throws |-> FALSE] : n \in 0..MaxNextCalls, w \in BOOLEAN} \
    {[calls |-> 0, wrap |-> TRUE, throws |-> FALSE]}
ThrowingBehaviours ==
    {[calls |-> n, wrap |-> FALSE, throws |-> TRUE] : n \in 0..MaxNextCalls}

\* A response: where it was made (0: the final handler, i: the i-th middleware of
\* the list) and the middlewares that wrapped it on the way back.
Response(origin) == [origin |-> origin, via |-> <<>>, threw |-> FALSE]
NoResponse       == [origin |-> -1, via |-> <<>>, threw |-> FALSE]
\* The error thrown by origin, on its way up the awaits.
Raised(origin)   == [origin |-> origin, via |-> <<>>, threw |-> TRUE]
\* What the final handler gives: its response, or its error when it throws.
FromHandler(h)   == IF h THEN Raised(0) ELSE Response(0)
FinalHandler     == 0

Frame(pos, b) == [pos |-> pos, calls |-> b.calls, wrap |-> b.wrap, throws |-> b.throws,
                  left |-> b.calls, got |-> NoResponse]

ChainIdle ==
    [status       |-> "idle",  \* idle, running, done, error (500), nomatch, throw
     afterError   |-> FALSE,   \* history: the request before this one was answered 500
     route        |-> 0,       \* position of the matched route in allBackendRoutes
     mws          |-> <<>>,    \* the middlewares argument
     currentIndex |-> 0,
     stack        |-> <<>>,    \* the middlewares that were invoked and have not returned
     started      |-> <<>>,    \* history: what was invoked, in order (0: final handler)
     shortCircuit |-> {},      \* history: middlewares that ended without calling next
     raised       |-> <<>>,    \* history: length of started when the first error was thrown
     result       |-> NoResponse]

\* executeMiddlewareChain(middlewares, finalHandler, ...) up to the first
\* suspension: the final handler at once for an absent or empty list, else the
\* first call of next(), which invokes the first middleware with behaviour b.
\* Variant of the catch block of step 5: the error leaves the request handler.
Settle_Rethrows(resp) == IF resp.threw THEN "throw" ELSE "done"

\* The try block of step 5 around executeMiddlewareChain and _applyTo: a
\* response is applied, an error is answered 500.
Settle(resp) == IF resp.threw THEN "error" ELSE "done"

StartChain(route, middlewares, b, h) ==
    IF Len(middlewares) = 0
    THEN [ChainIdle EXCEPT !.status = Settle(FromHandler(h)), !.route = route,
                           !.started = <<FinalHandler>>,
                           !.raised = IF h THEN <<1>> ELSE <<>>,
                           !.result = FromHandler(h)]
    ELSE [ChainIdle EXCEPT !.status = "running", !.route = route,
                           !.mws = middlewares,
                           !.currentIndex = 1,
                           !.stack = <<Frame(1, b)>>,
                           !.started = <<1>>]

\* Step 5 of the request handler: findMatchingBackendRoute, then
\* executeMiddlewareChain(backendMatch.route.middleware, handler, ...).
\* b is what the first middleware does, h whether the final handler throws.
ApiRequest(pathname, method, b, h) ==
    /\ chain.status # "running"
    /\ LET m == findMatchingBackendRoute(allBackendRoutes, pathname, method) IN
       IF m.status = "match"
       THEN chain' = [StartChain(m.index, allBackendRoutes[m.index].middleware, b, h)
                        EXCEPT !.afterError = (chain.status = "error")]
       ELSE chain' = [ChainIdle EXCEPT !.status = IF m.status = "throw" THEN "throw"
                                                  ELSE "nomatch",
                                       !.afterError = (chain.status = "error")]
    /\ UNCHANGED <<backendFs, allBackendRoutes, loadedMiddlewares, allWebSocketRoutes,
                   hotVars, matchVars, dispVars>>

\* Variant of next(): after the first middleware it goes to the final handler.
CallNext_HandlerAfterFirst(b, h) ==
    /\ chain.status = "running"
    /\ LET top == chain.stack[Len(chain.stack)]
           n   == Len(chain.stack)
       IN  /\ top.left > 0
           /\ IF chain.currentIndex < 1
              THEN chain' = [chain EXCEPT
                               !.currentIndex = @ + 1,
                               !.stack = Append([@ EXCEPT ![n].left = @ - 1],
                                                Frame(chain.currentIndex + 1, b)),
                               !.started = Append(@, chain.currentIndex + 1)]
              ELSE chain' = [chain EXCEPT
                               !.stack = [@ EXCEPT ![n].left = IF h THEN 0 ELSE @ - 1,
                                                   ![n].got = FromHandler(h)],
                               !.started = Append(@, FinalHandler),
                               !.raised = IF h /\ @ = <<>>
                                          THEN <<Len(chain.started) + 1>> ELSE @]
    /\ UNCHANGED <<backendFs, allBackendRoutes, loadedMiddlewares, allWebSocketRoutes,
                   hotVars, matchVars, dispVars>>

\* The middleware on top of the stack calls next(): the next middleware, with
\* behaviour b, or the final handler, which throws when h holds.
CallNext(b, h) ==
    /\ chain.status = "running"
    /\ LET top == chain.stack[Len(chain.stack)]
           n   == Len(chain.stack)
       IN  /\ top.left > 0
           /\ IF chain.currentIndex < Len(chain.mws)
              THEN chain' = [chain EXCEPT
                               !.currentIndex = @ + 1,
                               !.stack = Append([@ EXCEPT ![n].left = @ - 1],
                                                Frame(chain.currentIndex + 1, b)),
                               !.started = Append(@, chain.currentIndex + 1)]
              ELSE chain' = [chain EXCEPT
                               !.stack = [@ EXCEPT ![n].left = IF h THEN 0 ELSE @ - 1,
                                                   ![n].got = FromHandler(h)],
                               !.started = Append(@, FinalHandler),
                               !.raised = IF h /\ @ = <<>>
                                          THEN <<Len(chain.started) + 1>> ELSE @]
    /\ UNCHANGED <<backendFs, allBackendRoutes, loadedMiddlewares, allWebSocketRoutes,
                   hotVars, matchVars, dispVars>>

\* The middleware on top of the stack returns, to the middleware that called
\* next() or, for the first middleware, to executeMiddlewareChain's caller.
Return ==
    /\ chain.status = "running"
    /\ LET n    == Len(chain.stack)
           top  == chain.stack[n]
           resp == IF top.got.threw THEN top.got
                   ELSE IF top.throws THEN Raised(top.pos)
                   ELSE IF top.calls = 0 THEN Response(top.pos)
                   ELSE IF top.wrap THEN [top.got EXCEPT !.via = Append(@, top.pos)]
                   ELSE top.got
           short == IF top.calls = 0 THEN chain.shortCircuit \cup {top.pos}
                    ELSE chain.shortCircuit
           first == IF resp.threw /\ chain.raised = <<>> THEN <<Len(chain.started)>>
                    ELSE chain.raised
       IN  /\ top.left = 0
           /\ IF n = 1
              THEN chain' = [chain EXCEPT !.status = Settle(resp), !.stack = <<>>,
                                          !.shortCircuit = short, !.raised = first,
                                          !.result = resp]
              ELSE chain' = [chain EXCEPT
                               !.stack = [SubSeq(@, 1, n - 1) EXCEPT
                                            ![n - 1].got = resp,
                                            ![n - 1].left = IF resp.threw THEN 0 ELSE @],
                               !.shortCircuit = short, !.raised = first]
    /\ UNCHANGED <<backendFs, allBackendRoutes, loadedMiddlewares, allWebSocketRoutes,
                   hotVars, matchVars, dispVars>>

\* The backend routes directories of the model:
\*   a.ts  admin/{b.ts, middleware.ts?, x/{c.ts, middleware.ts?}}  middleware.ts?  notes.md
PatternA == <<"/", "a", "p", "i", "/", "a">>
PatternB == <<"/", "a", "p", "i", "/", "a", "d", "m", "i", "n", "/", "b">>
PatternC == <<"/", "a", "p", "i", "/", "a", "d", "m", "i", "n", "/", "x", "/", "c">>
NameA          == <<"a", ".", "t", "s">>
NameB          == <<"b", ".", "t", "s">>
NameC          == <<"c", ".", "t", "s">>
NameAdmin      == <<"a", "d", "m", "i", "n">>
NameX          == <<"x">>
NameMiddleware == <<"m", "i", "d", "d", "l", "e", "w", "a", "r", "e", ".", "t", "s">>
NameNotes      == <<"n", "o", "t", "e", "s", ".", "m", "d">>

Absent     == [present |-> FALSE, module |-> NoModule]
Present(m) == [present |-> TRUE, module |-> m]
RootMiddlewareFiles  == {Absent, Present(MiddlewareFunction("rootMw"))}
AdminMiddlewareFiles == {Absent, Present(MiddlewareFunction("adminMw")),
                         Present(MiddlewareArray(<<"adminA", "adminB">>)),
                         Present(MiddlewareNamed(<<"adminA", "adminB">>)),
                         Present(MiddlewareNamed(<<>>)), Present(MiddlewareBroken)}
SubMiddlewareFiles   == {Absent, Present(MiddlewareFunction("subMw"))}
\* The middleware property of b.ts: absent, [] or [ownMw].
OwnMiddleware        == {[has |-> FALSE, list |-> <<>>],
                         [has |-> TRUE,  list |-> <<>>],
                         [has |-> TRUE,  list |-> <<"ownMw">>]}

MiddlewareEntry(m) == IF m.present THEN <<File(NameMiddleware, m.module)>> ELSE <<>>

BackendTree(rootMw, adminMw, subMw, own) ==
    <<File(NameA, RouteModule(PatternA, {"GET"}, FALSE, <<>>)),
      Dir(NameAdmin,
          <<File(NameB, RouteModule(PatternB, {"GET", "POST"}, own.has, own.list))>>
          \o MiddlewareEntry(adminMw)
          \o <<Dir(NameX, <<File(NameC, RouteModule(PatternC, {"GET"}, FALSE, <<>>))>>
                           \o MiddlewareEntry(subMw))>>)>>
    \o MiddlewareEntry(rootMw)
    \o <<File(NameNotes, NoModule)>>

\* A routes directory whose first route file uses a parameter name twice:
\*   a.ts (/api/[id]/[id])  b.ts (/api/a)
PatternDup == <<"/", "a", "p", "i", "/", "[", "i", "d", "]", "/", "[", "i", "d", "]">>
DupTree ==
    <<File(NameA, RouteModule(PatternDup, {"GET"}, FALSE, <<>>)),
      File(NameB, RouteModule(PatternA, {"GET"}, FALSE, <<>>))>>

BackendTrees ==
    {BackendTree(r, a, x, own) : r \in RootMiddlewareFiles, a \in AdminMiddlewareFiles,
                                 x \in SubMiddlewareFiles, own \in OwnMiddleware}
    \cup {DupTree}

ApiPaths   == {PatternA, PatternB, PatternC, <<"/", "a", "p", "i", "/", "n", "o", "n", "e">>}
ApiMethods == {"GET", "POST"}

NoLookup == [kind |-> "none", path |-> <<>>, method |-> "", result |-> NotFound]

ApiIdle ==
    /\ backendFs = <<>>
    /\ allBackendRoutes = <<>>
    /\ allWebSocketRoutes = <<>>
    /\ loadedMiddlewares = EmptyMap
    /\ chain = ChainIdle

\* No rebuild in progress.  files are the modules still to require, loaded is
\* the local list of the loader, before and after (history) the three tables
\* when the running or last rebuild began and those its complete run gives.
NoTables == [page |-> <<>>, api |-> <<>>, socket |-> <<>>]
NoReload == [pc |-> "idle", files |-> <<>>, loaded |-> <<>>,
             before |-> NoTables, after |-> NoTables]

MatchIdle ==
    /\ allRoutes = <<>>
    /\ lookup = NoLookup
    /\ reload = NoReload

NoResponseYet == [path |-> <<>>, method |-> "", via |-> "none", status |-> "none", route |-> 0]
NoUpgrade == [path |-> <<>>, conn |-> "", to |-> "none", route |-> 0, params |-> <<>>,
              adapter |-> FALSE, manager |-> FALSE, shutting |-> FALSE]
\* No user socket was accepted and no context has broadcast.  route is the
\* matchedRoute.route a socket's context closes over, ran what
\* handleWebSocketConnection executed for it; sent (the last context.broadcast,
\* with the routes of the sockets it reached) is history.
NoSocketRoute == [pattern |-> <<>>, middleware |-> <<>>]
NoUserBroadcast == [from |-> "", route |-> NoSocketRoute, exclude |-> {}, to |-> {},
                    toRoutes |-> {}]
NoContext == [route |-> [c \in Conns |-> NoSocketRoute],
              ran   |-> [c \in Conns |-> <<>>],
              sent  |-> NoUserBroadcast]

DispIdle ==
    /\ publicFiles = {}
    /\ hightFiles = {}
    /\ response = NoResponseYet
    /\ adapter = TRUE
    /\ hotReloadManager = TRUE
    /\ upgraded = NoUpgrade
    /\ wsConnections = {}
    /\ wsContext = NoContext

ApiInit ==
    /\ HotIdle
    /\ MatchIdle
    /\ DispIdle
    /\ backendFs \in BackendTrees
    /\ allBackendRoutes = <<>>
    /\ allWebSocketRoutes = <<>>
    /\ loadedMiddlewares = EmptyMap
    /\ chain = ChainIdle

ApiNext ==
    \/ LoadBackendRoutes
    \/ \E pathname \in ApiPaths, method \in ApiMethods, b \in Behaviours :
         ApiRequest(pathname, method, b, FALSE)
    \/ \E b \in Behaviours : CallNext(b, FALSE)
    \/ Return

HotInit == HotIdle /\ ApiIdle /\ MatchIdle /\ DispIdle

\* The hot reload manager of a development server.
SpecHot == HotInit /\ [][HotNext]_vars

\* The notification channel of a development server.
SpecFanout == HotInit /\ [][FanoutNext]_vars

\* The change watcher of a development server.
SpecWatch == HotInit /\ [][WatchNext]_vars

\* Changes and removals of files of every class.
SpecReload == HotInit /\ [][ReloadNext]_vars

\* The heartbeat of the notification sockets.
SpecBeat == HotInit /\ [][BeatNext]_vars

\* A terminated socket emits 'close'.
SpecBeatFair == SpecBeat /\ \A c \in BeatConns : WF_vars(OnClose(c))

\* The API route table of a project and the requests served from it.
SpecApi == ApiInit /\ [][ApiNext]_vars


(***************************************************************************)
(* Route lookup over tables of routes, as loadRoutes and loadBackendRoutes *)
(* leave them: the routes of the route files, in discovery order.          *)
(***************************************************************************)
W_users == <<"u", "s", "e", "r", "s">>
W_n42 == <<"4", "2">>
W_edit == <<"e", "d", "i", "t">>
W_post == <<"p", "o", "s", "t">>
W_new == <<"n", "e", "w">>
W_docs == <<"d", "o", "c", "s">>
W_a == <<"a">>
W_b == <<"b">>
W_c == <<"c">>

\* "/" followed by the components joined by "/".
PathOf(components) == SLASH \o Join(components, SLASH)

PostId       == PathOf(<<W_post, <<"[", "i", "d", "]">>>>)
PostNew      == PathOf(<<W_post, W_new>>)
UsersId      == PathOf(<<W_users, <<"[", "i", "d", "]">>>>)
UsersOptId   == PathOf(<<W_users, <<"[", "[", "i", "d", "]", "]">>>>)
DocsSlug     == PathOf(<<W_docs, <<"[", ".", ".", ".", "s", "l", "u", "g", "]">>>>)
DocsOptSlug  == PathOf(<<W_docs, <<"[", "[", ".", ".", ".", "s", "l", "u", "g", "]", "]">>>>)
PostIdId     == PathOf(<<W_post, <<"[", "i", "d", "]">>, <<"[", "i", "d", "]">>>>)
Patterns     == {PostId, PostNew, PostIdId, UsersId, UsersOptId, DocsSlug, DocsOptSlug}

\* Sequences over S of length 1..n.
SeqsUpTo(S, n) == UNION {[1..k -> S] : k \in 1..n}

\* The request paths of the model, each with and without a trailing slash.
BasePaths ==
    {PathOf(cs) : cs \in SeqsUpTo({W_users, W_n42}, 2)}
    \cup {PathOf(<<W_users, W_n42, W_edit>>), PathOf(<<W_users, <<>> >>)}
    \cup {PathOf(cs) : cs \in SeqsUpTo({W_post, W_new}, 2)}
    \cup {PathOf(<<W_post, W_n42>>), PathOf(<<W_post, W_n42, W_n42>>)}
    \cup {PathOf(cs) : cs \in SeqsUpTo({W_docs, W_a}, 2)}
    \cup {PathOf(<<W_docs, W_a, W_b>>), PathOf(<<W_docs, W_a, W_b, W_c>>)}
Paths == BasePaths \cup {p \o SLASH : p \in BasePaths} \cup {SLASH}

PageRoute(pattern) == [pattern |-> pattern]
ApiRoute(pattern, methods) ==
    [pattern |-> pattern, methods |-> methods, hasMiddleware |-> FALSE,
     middleware |-> <<>>, source |-> <<>>]

\* An entry of allWebSocketRoutes, as processWebSocketRoutes builds it.
SocketRoute(pattern, middleware) == [pattern |-> pattern, middleware |-> middleware]

PageRoutes == {PageRoute(p) : p \in Patterns}
SocketRoutes == {SocketRoute(p, <<>>) : p \in Patterns}
ApiRoutes  == {ApiRoute(p, {"GET"}) : p \in Patterns}
              \cup {ApiRoute(PostId, {"POST"}), ApiRoute(PostNew, {"GET", "POST"})}

MatchInit ==
    /\ HotIdle
    /\ DispIdle
    /\ backendFs = <<>>
    /\ loadedMiddlewares = EmptyMap
    /\ chain = ChainIdle
    /\ lookup = NoLookup
    /\ reload = NoReload
    /\ \/ /\ allRoutes \in SeqsUpTo(PageRoutes, MaxTable)
          /\ allBackendRoutes = <<>>
          /\ allWebSocketRoutes = <<>>
       \/ /\ allRoutes = <<>>
          /\ allBackendRoutes \in SeqsUpTo(ApiRoutes, MaxTable)
          /\ allWebSocketRoutes = <<>>
       \/ /\ allRoutes = <<>>
          /\ allBackendRoutes = <<>>
          /\ allWebSocketRoutes \in SeqsUpTo(SocketRoutes, MaxTable)

\* A request reaches step 6 of the request handler: findMatchingRoute(pathname).
LookupPage(pathname) ==
    /\ lookup.kind = "none"
    /\ allRoutes # <<>>
    /\ lookup' = [kind |-> "page", path |-> pathname, method |-> "",
                  result |-> findMatchingRoute(allRoutes, pathname)]
    /\ UNCHANGED <<allRoutes, reload, hotVars, apiVars, dispVars>>

\* A request reaches step 5: findMatchingBackendRoute(pathname, method).
LookupApi(pathname, method) ==
    /\ lookup.kind = "none"
    /\ allBackendRoutes # <<>>
    /\ lookup' = [kind |-> "api", path |-> pathname, method |-> method,
                  result |-> findMatchingBackendRoute(allBackendRoutes, pathname, method)]
    /\ UNCHANGED <<allRoutes, reload, hotVars, apiVars, dispVars>>

\* An upgrade request reaches handleWebSocketUpgrade:
\* findMatchingWebSocketRoute(pathname).
LookupSocket(pathname) ==
    /\ lookup.kind = "none"
    /\ allWebSocketRoutes # <<>>
    /\ lookup' = [kind |-> "socket", path |-> pathname, method |-> "",
                  result |-> findMatchingWebSocketRoute(allWebSocketRoutes, pathname)]
    /\ UNCHANGED <<allRoutes, reload, hotVars, apiVars, dispVars>>

\* The request is answered; the next one may be looked up.
LookupDone ==
    /\ lookup.kind # "none"
    /\ lookup' = NoLookup
    /\ UNCHANGED <<allRoutes, reload, hotVars, apiVars, dispVars>>

MatchNext ==
    \/ \E pathname \in Paths : LookupPage(pathname)
    \/ \E pathname \in Paths, method \in ApiMethods : LookupApi(pathname, method)
    \/ \E pathname \in Paths : LookupSocket(pathname)
    \/ LookupDone

\* Lookups in the page and API route tables.
SpecMatch == MatchInit /\ [][MatchNext]_vars


(***************************************************************************)
(* The request handler (index.ts): hot-reload upgrade, static files of     *)
(* public/ and .hight/, API routes, pages and the 404 page.                *)
(***************************************************************************)
HotReloadPath  == <<"/", "h", "w", "e", "b", "-", "h", "o", "t", "r", "e", "l", "o", "a", "d", "/">>
ApiPrefix      == <<"/", "a", "p", "i", "/">>
DotHightPrefix == <<"/", ".", "h", "i", "g", "h", "t">>
HightPrefix    == <<"/", "_", "h", "i", "g", "h", "t", "/">>

\* How a request was answered.  via: upgrade (left to the 'upgrade' event, no
\* response), public, hight, api, page, notfound, throw (the handler's promise
\* rejects); status: the status of the response ("handler": whatever the API
\* chain returned); route: the position of the matched route in its table.
Answer(pathname, method, via, status, route) ==
    [path |-> pathname, method |-> method, via |-> via, status |-> status, route |-> route]

\* Variant of step 6 without the catch blocks around render.
PageStep_RenderErrorEscapes(pathname, method) ==
    LET pageMatch == findMatchingRoute(allRoutes, pathname) IN
    IF pageMatch.status = "throw"
    THEN {Answer(pathname, method, "throw", "none", pageMatch.index)}
    ELSE IF pageMatch.status = "null"
    THEN {Answer(pathname, method, "notfound", "404 html", 0),
          Answer(pathname, method, "throw", "none", 0)}
    ELSE {Answer(pathname, method, "page", "200", pageMatch.index),
          Answer(pathname, method, "throw", "none", pageMatch.index)}

\* Step 6: findMatchingRoute, then render of the page or of the 404 page; render
\* may throw: the catch block of the 404 page answers status(404).text('Page not
\* found'), the one of a page status(500).
PageStep(pathname, method) ==
    LET pageMatch == findMatchingRoute(allRoutes, pathname) IN
    IF pageMatch.status = "throw"
    THEN {Answer(pathname, method, "throw", "none", pageMatch.index)}
    ELSE IF pageMatch.status = "null"
    THEN {Answer(pathname, method, "notfound", "404 html", 0),
          Answer(pathname, method, "notfound", "404 text", 0)}
    ELSE {Answer(pathname, method, "page", "200", pageMatch.index),
          Answer(pathname, method, "page", "500", pageMatch.index)}

\* Step 5: findMatchingBackendRoute, then the middleware chain and the handler,
\* which may throw; without a match, step 6.
ApiStep(pathname, method) ==
    LET backendMatch == findMatchingBackendRoute(allBackendRoutes, pathname, method) IN
    IF backendMatch.status = "throw"
    THEN {Answer(pathname, method, "throw", "none", backendMatch.index)}
    ELSE IF backendMatch.status = "match"
    THEN {Answer(pathname, method, "api", "handler", backendMatch.index),
          Answer(pathname, method, "api", "500", backendMatch.index)}
    ELSE PageStep(pathname, method)

\* pathname.replace('/_hight/', '') for a pathname that starts with it.
HightName(pathname) == SubSeq(pathname, Len(HightPrefix) + 1, Len(pathname))

\* The request handler returned by getRequestHandler.
Handle(pathname, method, upgrade) ==
    IF pathname = HotReloadPath /\ upgrade /\ hotReloadManager
    THEN {Answer(pathname, method, "upgrade", "none", 0)}
    ELSE IF /\ pathname # SLASH
            /\ ~StartsWith(pathname, ApiPrefix)
            /\ ~StartsWith(pathname, DotHightPrefix)
            /\ pathname \in publicFiles
    THEN {Answer(pathname, method, "public", "200", 0)}
    ELSE IF StartsWith(pathname, HightPrefix) /\ HightName(pathname) \in hightFiles
    THEN {Answer(pathname, method, "hight", "200", 0)}
    ELSE ApiStep(pathname, method)

\* A request arrives and is answered.
Request(pathname, method, upgrade) ==
    /\ response.via = "none"
    /\ adapter' = TRUE
    /\ response' \in Handle(pathname, method, upgrade)
    /\ UNCHANGED <<publicFiles, hightFiles, hotReloadManager, upgraded, wsConnections,
                   wsContext>>
    /\ UNCHANGED <<hotVars, apiVars, matchVars>>

\* The response was sent; the next request may arrive.
RequestDone ==
    /\ response.via # "none"
    /\ response' = NoResponseYet
    /\ UNCHANGED <<publicFiles, hightFiles, adapter, hotReloadManager, upgraded,
                   wsConnections, wsContext>>
    /\ UNCHANGED <<hotVars, apiVars, matchVars>>

\* The projects of the dispatch model.
P_about == <<"/", "a", "b", "o", "u", "t">>
P_logo  == <<"/", "l", "o", "g", "o", ".", "p", "n", "g">>
P_main  == <<"/", "_", "h", "i", "g", "h", "t", "/", "m", "a", "i", "n", ".", "j", "s">>
P_slug  == <<"/", "[", "s", "l", "u", "g", "]">>
P_apiX  == <<"/", "a", "p", "i", "/", "[", "x", "]">>
N_main  == <<"m", "a", "i", "n", ".", "j", "s">>
DispatchPaths   == {SLASH, P_about, P_logo, PatternA, P_main, HotReloadPath}
PublicCandidates == {P_logo, P_about, PatternA}
PageTables ==
    {<<>>,
     <<PageRoute(P_about)>>,
     <<PageRoute(P_slug)>>,
     <<PageRoute(P_apiX), PageRoute(P_about)>>}
ApiTables ==
    {<<>>,
     <<ApiRoute(PatternA, {"GET"})>>,
     <<ApiRoute(PatternA, {"GET"}), ApiRoute(P_apiX, {"POST"})>>,
     <<ApiRoute(P_about, {"GET"})>>,
     <<ApiRoute(P_apiX, {"GET", "POST"}), ApiRoute(PatternA, {"GET"})>>}

DispatchInit ==
    /\ HotIdle
    /\ backendFs = <<>>
    /\ loadedMiddlewares = EmptyMap
    /\ chain = ChainIdle
    /\ allWebSocketRoutes = <<>>
    /\ lookup = NoLookup
    /\ reload = NoReload
    /\ allRoutes \in PageTables
    /\ allBackendRoutes \in ApiTables
    /\ publicFiles \in SUBSET PublicCandidates
    /\ hightFiles \in SUBSET {N_main}
    /\ response = NoResponseYet
    /\ adapter \in BOOLEAN
    /\ hotReloadManager \in BOOLEAN
    /\ upgraded = NoUpgrade
    /\ wsConnections = {}
    /\ wsContext = NoContext

DispatchNext ==
    \/ \E pathname \in DispatchPaths, method \in ApiMethods, upgrade \in BOOLEAN :
           Request(pathname, method, upgrade)
    \/ RequestDone

\* Requests served from a project's tables and static files.
SpecDispatch == DispatchInit /\ [][DispatchNext]_vars

(***************************************************************************)
(* Upgrade requests (router.ts: setupWebSocketUpgrade and what it calls)   *)
(***************************************************************************)
\* extractWebSocketParams(pathname, pattern): the named groups of the match, an
\* empty object when the pattern has none.
extractWebSocketParams(pathname, pattern) ==
    LET re == SocketRegexPattern(pattern)
        m  == RegexMatch(re, pathname)
    IN  IF m.ok /\ GroupNames(re) # {} THEN m.groups ELSE <<>>

\* What becomes of the socket of an upgrade request.
Outcome(to, route, params) == [to |-> to, route |-> route, params |-> params]

\* Variant of handleWebSocketUpgrade: the user socket routes are tried before the
\* reserved path.
handleWebSocketUpgrade_RoutesFirst(pathname) ==
    IF ~adapter THEN Outcome("destroyed", 0, <<>>)
    ELSE LET matchedRoute == findMatchingWebSocketRoute(allWebSocketRoutes, pathname) IN
         IF matchedRoute.status = "throw" THEN Outcome("throw", matchedRoute.index, <<>>)
         ELSE IF matchedRoute.status = "match"
         THEN Outcome("route", matchedRoute.index,
                      extractWebSocketParams(pathname,
                          allWebSocketRoutes[matchedRoute.index].pattern))
         ELSE IF pathname = HotReloadPath /\ hotReloadManager /\ ~isShuttingDown
         THEN Outcome("fanout", 0, <<>>)
         ELSE Outcome("destroyed", 0, <<>>)

\* handleWebSocketUpgrade(request, socket, head, hotReloadManager), with
\* HotReloadManager.handleUpgrade and handleWebSocketConnection.
handleWebSocketUpgrade(pathname) ==
    IF ~adapter THEN Outcome("destroyed", 0, <<>>)
    ELSE IF pathname = HotReloadPath
    THEN IF hotReloadManager /\ ~isShuttingDown
         THEN Outcome("fanout", 0, <<>>)
         ELSE Outcome("destroyed", 0, <<>>)
    ELSE LET matchedRoute == findMatchingWebSocketRoute(allWebSocketRoutes, pathname) IN
         IF matchedRoute.status = "throw" THEN Outcome("throw", matchedRoute.index, <<>>)
         ELSE IF matchedRoute.status = "match"
         THEN Outcome("route", matchedRoute.index,
                      extractWebSocketParams(pathname,
                          allWebSocketRoutes[matchedRoute.index].pattern))
         ELSE Outcome("destroyed", 0, <<>>)

\* handleWebSocketConnection(ws, req, hwebReq) for a matched route: the context is
\* built around the route and route.handler(context) is called.
handleWebSocketConnection(c, pathname, route) ==
    [wsContext EXCEPT !.route[c] = route, !.ran[c] = <<"handler">>]

\* context.broadcast(data, exclude): the sockets the message is sent to.
broadcast_EverySocket(exclude) ==
    {d \in wsConnections \cup clients : readyState[d] = "OPEN" /\ d \notin exclude}

broadcast(exclude) ==
    {d \in wsConnections : readyState[d] = "OPEN" /\ d \notin exclude}

\* The handler of the socket c calls context.broadcast.
UserBroadcast(c, exclude) ==
    /\ NoMicrotask
    /\ c \in wsConnections
    /\ wsContext' = [wsContext EXCEPT !.sent = [from |-> c, route |-> wsContext.route[c],
                                                exclude |-> exclude,
                                                to |-> broadcast(exclude),
                                                toRoutes |-> {wsContext.route[d] :
                                                              d \in broadcast(exclude)}]]
    /\ UNCHANGED <<publicFiles, hightFiles, response, adapter, hotReloadManager, upgraded,
                   wsConnections>>
    /\ UNCHANGED <<hotVars, apiVars, matchVars>>

\* The server's 'upgrade' event for socket c.
Upgrade(c, pathname) ==
    LET o == handleWebSocketUpgrade(pathname) IN
    /\ NoMicrotask
    /\ upgraded.to = "none"
    /\ readyState[c] = "NONE"
    /\ upgraded' = [path |-> pathname, conn |-> c, to |-> o.to, route |-> o.route,
                    params |-> o.params, adapter |-> adapter,
                    manager |-> hotReloadManager, shutting |-> isShuttingDown]
    /\ clients' = IF o.to = "fanout" THEN clients \cup {c} ELSE clients
    /\ wsConnections' = IF o.to = "route" THEN wsConnections \cup {c} ELSE wsConnections
    /\ wsContext' = IF o.to = "route"
                    THEN handleWebSocketConnection(c, pathname, allWebSocketRoutes[o.route])
                    ELSE wsContext
    /\ readyState' = IF o.to \in {"fanout", "route"}
                     THEN [readyState EXCEPT ![c] = "OPEN"]
                     ELSE readyState
    /\ UNCHANGED <<isShuttingDown, debounceTimers, isBuilding, buildCompleteResolve,
                   waits, lastBroadcast, burstKind, completions>>
    /\ UNCHANGED <<publicFiles, hightFiles, response, adapter, hotReloadManager>>
    /\ beat' = IF o.to = "fanout" THEN [beat EXCEPT ![c] = NewBeat(now)] ELSE beat
    /\ UNCHANGED <<trace, now>>
    /\ UNCHANGED <<apiVars, matchVars>>

\* The upgrade was handled; the next one may arrive.
UpgradeDone ==
    /\ upgraded.to # "none"
    /\ upgraded' = NoUpgrade
    /\ UNCHANGED <<publicFiles, hightFiles, response, adapter, hotReloadManager,
                   wsConnections, wsContext>>
    /\ UNCHANGED <<hotVars, apiVars, matchVars>>

\* ws.on('close') and ws.on('error') of a user socket: wsConnections.delete(ws).
UserSocketClose(c) ==
    /\ c \in wsConnections
    /\ wsConnections' = wsConnections \ {c}
    /\ wsContext' = [wsContext EXCEPT !.route[c] = NoSocketRoute, !.ran[c] = <<>>]
    /\ readyState' = [readyState EXCEPT ![c] = "NONE"]
    /\ UNCHANGED <<clients, isShuttingDown, debounceTimers, isBuilding,
                   buildCompleteResolve, waits, lastBroadcast, burstKind, completions>>
    /\ UNCHANGED <<publicFiles, hightFiles, response, adapter, hotReloadManager, upgraded>>
    /\ UNCHANGED <<trace, now, beat>>
    /\ UNCHANGED <<apiVars, matchVars>>

\* The socket tables and paths of the upgrade model.
P_chat          == <<"/", "c", "h", "a", "t">>
P_room          == <<"/", "r", "o", "o", "m">>
P_chatSlash     == P_chat \o SLASH
P_hotNoSlash    == SubSeq(HotReloadPath, 1, Len(HotReloadPath) - 1)
UpgradePaths    == {HotReloadPath, P_hotNoSlash, P_chat, P_chatSlash, P_about, SLASH}
SocketTables ==
    {<<>>,
     <<SocketRoute(P_chat, <<>>)>>,
     <<SocketRoute(P_slug, <<>>)>>,
     <<SocketRoute(P_slug, <<>>), SocketRoute(P_chat, <<>>)>>,
     <<SocketRoute(P_chat, <<>>), SocketRoute(P_slug, <<>>)>>}
UpgradeConns == {"c1", "c2"}

UpgradeInit ==
    /\ HotIdle
    /\ MatchIdle
    /\ backendFs = <<>>
    /\ allBackendRoutes = <<>>
    /\ loadedMiddlewares = EmptyMap
    /\ chain = ChainIdle
    /\ allWebSocketRoutes \in SocketTables
    /\ publicFiles = {}
    /\ hightFiles = {}
    /\ response = NoResponseYet
    /\ adapter \in BOOLEAN
    /\ hotReloadManager \in BOOLEAN
    /\ upgraded = NoUpgrade
    /\ wsConnections = {}
    /\ wsContext = NoContext

UpgradeNext ==
    \/ \E c \in UpgradeConns, pathname \in UpgradePaths : Upgrade(c, pathname)
    \/ UpgradeDone
    \/ \E c \in UpgradeConns : UserSocketClose(c)
    \/ \E c \in UpgradeConns : SocketClosing(c) /\ c \in clients
    \/ \E c \in UpgradeConns : OnClose(c)
    \/ Request(P_about, "GET", FALSE)
    \/ RequestDone
    \/ hotReloadManager /\ Stop

\* Upgrade requests on a server with user socket routes.
SpecUpgrade == UpgradeInit /\ [][UpgradeNext]_vars

\* A development server with two user socket routes, one of them behind a
\* middleware; browsers connect to the reserved path and to the routes, handlers
\* broadcast, and a removed file makes the manager notify.
SocketTree ==
    <<File(NameB, RouteModule(P_chat, {"WS"}, TRUE, <<"auth">>)),
      File(NameC, RouteModule(P_room, {"WS"}, FALSE, <<>>))>>
SocketLoaded ==
    LET scan == scanDirectory(SocketTree, <<>>,
                              [routeFiles |-> <<>>, middlewareFiles |-> EmptyMap])
    IN  LoadRouteFiles(scan.routeFiles, PreloadMiddlewares(scan.middlewareFiles))
SocketPaths == {HotReloadPath, P_chat, P_room}
SocketConns == {"c1", "c2"}

SocketsInit ==
    /\ HotIdle
    /\ MatchIdle
    /\ DispIdle
    /\ backendFs = SocketTree
    /\ allBackendRoutes = SocketLoaded
    /\ allWebSocketRoutes = processWebSocketRoutes(SocketLoaded)
    /\ loadedMiddlewares = EmptyMap
    /\ chain = ChainIdle

SocketsNext ==
    \/ \E c \in SocketConns, pathname \in SocketPaths : Upgrade(c, pathname)
    \/ UpgradeDone
    \/ \E c \in SocketConns : SocketClosing(c)
    \/ \E c \in SocketConns : OnClose(c) /\ c \notin wsConnections
    \/ \E c \in SocketConns : UserSocketClose(c)
    \/ \E c \in SocketConns : \E exclude \in {{}, {c}} : UserBroadcast(c, exclude)
    \/ WatcherUnlink(FileLib)

SpecSockets == SocketsInit /\ [][SocketsNext]_vars

\* Requests against a loaded table of API routes whose middlewares and
\* handlers may throw: one route without middleware, one with one, one with two.
ChainRoute(pattern, middleware) ==
    [pattern |-> pattern, methods |-> {"GET"}, hasMiddleware |-> Len(middleware) > 0,
     middleware |-> middleware, source |-> <<>>]

ChainTable ==
    <<ChainRoute(PatternA, <<>>), ChainRoute(PatternB, <<"adminMw">>),
      ChainRoute(PatternC, <<"adminA", "adminB">>)>>

ChainInit ==
    /\ HotIdle
    /\ MatchIdle
    /\ DispIdle
    /\ backendFs = <<>>
    /\ allBackendRoutes = ChainTable
    /\ allWebSocketRoutes = <<>>
    /\ loadedMiddlewares = EmptyMap
    /\ chain = ChainIdle

ChainNext ==
    \/ \E pathname \in ApiPaths, b \in Behaviours \cup ThrowingBehaviours, h \in BOOLEAN :
         ApiRequest(pathname, "GET", b, h)
    \/ \E b \in Behaviours \cup ThrowingBehaviours, h \in BOOLEAN : CallNext(b, h)
    \/ Return

SpecChain == ChainInit /\ [][ChainNext]_vars

\* ---- Rebuilds of the route tables, statement by statement ----

\* The three tables as a lookup finds them.
Tables == [page |-> allRoutes, api |-> allBackendRoutes, socket |-> allWebSocketRoutes]

\* Variant of the scheduling: a lookup may run between two statements of a
\* rebuild, as it could were the loaders asynchronous.
MayRun_BetweenStatements == TRUE

\* loadRoutes, loadBackendRoutes, processWebSocketRoutes and the two callbacks
\* that call them are synchronous functions: the event loop starts the task of
\* a request only when the running rebuild has returned.
MayRun == reload.pc = "idle"

\* A page module: loadRoutes keeps it when its default export has a pattern and
\* a component.
PageModule(pattern, component) == [pattern |-> pattern, component |-> component]
\* The table a complete run of loadRoutes builds from the modules.
RECURSIVE LoadedPages(_)
LoadedPages(modules) ==
    IF modules = <<>> THEN <<>>
    ELSE (IF Head(modules).component THEN <<PageRoute(Head(modules).pattern)>> ELSE <<>>)
         \o LoadedPages(Tail(modules))

\* regenerateEntryFile calls loadRoutes: the directory is scanned, the local
\* list loaded is empty.
LoadRoutesBegin(modules) ==
    /\ reload.pc = "idle"
    /\ reload' = [pc |-> "loadRoutes", files |-> modules, loaded |-> <<>>,
                  before |-> Tables,
                  after |-> [Tables EXCEPT !.page = LoadedPages(modules)]]
    /\ UNCHANGED <<allRoutes, lookup, hotVars, apiVars, dispVars>>

\* One iteration of the loop over routeFiles: require, then loaded.push.
LoadRoutesFile ==
    /\ reload.pc = "loadRoutes"
    /\ reload.files # <<>>
    /\ reload' = [reload EXCEPT
                    !.files = Tail(@),
                    !.loaded = IF Head(reload.files).component
                               THEN Append(@, PageRoute(Head(reload.files).pattern))
                               ELSE @]
    /\ UNCHANGED <<allRoutes, lookup, hotVars, apiVars, dispVars>>

\* allRoutes = loaded; return.
LoadRoutesAssign ==
    /\ reload.pc = "loadRoutes"
    /\ reload.files = <<>>
    /\ allRoutes' = reload.loaded
    /\ reload' = [reload EXCEPT !.pc = "idle", !.loaded = <<>>]
    /\ UNCHANGED <<lookup, hotVars, apiVars, dispVars>>

\* The backend callback calls loadBackendRoutes on a directory of route files
\* without middleware files.
LoadBackendRoutesBegin(modules) ==
    /\ reload.pc = "idle"
    /\ reload' = [pc |-> "loadBackendRoutes", files |-> modules, loaded |-> <<>>,
                  before |-> Tables,
                  after |-> [Tables EXCEPT !.api = modules,
                                           !.socket = processWebSocketRoutes(modules)]]
    /\ UNCHANGED <<allRoutes, lookup, hotVars, apiVars, dispVars>>

\* One iteration of the loop over routeFiles: require, then loaded.push.
LoadBackendRoutesFile ==
    /\ reload.pc = "loadBackendRoutes"
    /\ reload.files # <<>>
    /\ reload' = [reload EXCEPT !.files = Tail(@), !.loaded = Append(@, Head(reload.files))]
    /\ UNCHANGED <<allRoutes, lookup, hotVars, apiVars, dispVars>>

\* Variant of the callback: it returns after loadBackendRoutes, without
\* processWebSocketRoutes.
LoadBackendRoutesAssign_SkipsSockets ==
    /\ reload.pc = "loadBackendRoutes"
    /\ reload.files = <<>>
    /\ allBackendRoutes' = reload.loaded
    /\ reload' = [reload EXCEPT !.pc = "idle", !.loaded = <<>>]
    /\ UNCHANGED <<backendFs, loadedMiddlewares, chain, allWebSocketRoutes>>
    /\ UNCHANGED <<allRoutes, lookup, hotVars, dispVars>>

\* allBackendRoutes = loaded; the callback goes on to processWebSocketRoutes.
LoadBackendRoutesAssign ==
    /\ reload.pc = "loadBackendRoutes"
    /\ reload.files = <<>>
    /\ allBackendRoutes' = reload.loaded
    /\ reload' = [reload EXCEPT !.pc = "processWebSocketRoutes", !.loaded = <<>>]
    /\ UNCHANGED <<backendFs, loadedMiddlewares, chain, allWebSocketRoutes>>
    /\ UNCHANGED <<allRoutes, lookup, hotVars, dispVars>>

\* processWebSocketRoutes: allWebSocketRoutes = [], before the loop over
\* allBackendRoutes.
ProcessWebSocketRoutesReset ==
    /\ reload.pc = "processWebSocketRoutes"
    /\ allWebSocketRoutes' = <<>>
    /\ reload' = [reload EXCEPT !.pc = "push", !.files = allBackendRoutes]
    /\ UNCHANGED <<backendFs, loadedMiddlewares, chain, allBackendRoutes>>
    /\ UNCHANGED <<allRoutes, lookup, hotVars, dispVars>>

\* One iteration of the loop: allWebSocketRoutes.push for a route with WS; after
\* the last one the callback returns.
ProcessWebSocketRoutesPush ==
    /\ reload.pc = "push"
    /\ IF reload.files = <<>>
       THEN /\ reload' = [reload EXCEPT !.pc = "idle"]
            /\ UNCHANGED allWebSocketRoutes
       ELSE /\ reload' = [reload EXCEPT !.files = Tail(@)]
            /\ allWebSocketRoutes' =
                 allWebSocketRoutes \o processWebSocketRoutes(<<Head(reload.files)>>)
    /\ UNCHANGED <<backendFs, loadedMiddlewares, chain, allBackendRoutes>>
    /\ UNCHANGED <<allRoutes, lookup, hotVars, dispVars>>

\* The lookup of kind in tables t.
Find(kind, t, pathname) ==
    IF kind = "page" THEN findMatchingRoute(t.page, pathname)
    ELSE IF kind = "api" THEN findMatchingBackendRoute(t.api, pathname, "GET")
    ELSE findMatchingWebSocketRoute(t.socket, pathname)

\* The task of a request or of an upgrade request makes its lookup.
FindIn(kind, pathname) ==
    /\ MayRun
    /\ lookup.kind = "none"
    /\ lookup' = [kind |-> kind, path |-> pathname,
                  method |-> IF kind = "api" THEN "GET" ELSE "",
                  result |-> Find(kind, Tables, pathname)]
    /\ UNCHANGED <<allRoutes, reload, hotVars, apiVars, dispVars>>

PageModules == {PageModule(P_slug, TRUE), PageModule(P_room, FALSE)}
ApiModules  == {[ApiRoute(P_room, {"GET", "WS"}) EXCEPT !.hasMiddleware = TRUE,
                                                        !.middleware = <<"auth">>],
                ApiRoute(P_slug, {"GET"})}
TablePaths  == {P_room}

TablesInit == HotIdle /\ ApiIdle /\ MatchIdle /\ DispIdle

TablesNext ==
    \/ \E modules \in SeqsUpTo(PageModules, MaxTable) : LoadRoutesBegin(modules)
    \/ LoadRoutesFile
    \/ LoadRoutesAssign
    \/ \E modules \in SeqsUpTo(ApiModules, MaxTable) : LoadBackendRoutesBegin(modules)
    \/ LoadBackendRoutesFile
    \/ LoadBackendRoutesAssign
    \/ ProcessWebSocketRoutesReset
    \/ ProcessWebSocketRoutesPush
    \/ \E kind \in {"page", "api", "socket"}, pathname \in TablePaths : FindIn(kind, pathname)
    \/ LookupDone

\* Rebuilds of the three tables interleaved with lookups.
SpecTables == TablesInit /\ [][TablesNext]_vars

\* ---- A server with a browser connected, a page file and a new API route file ----

\* src/backend/routes/b.ts was added after the routes were loaded: it is on disk
\* and not yet in the tables.
ServeTrees ==
    {<<File(NameB, RouteModule(PatternA, {"GET"}, FALSE, <<>>)),
       File(NameC, RouteModule(P_apiX, {"WS"}, FALSE, <<>>))>>}
ServePaths == {PatternA, P_about}

ServeInit ==
    /\ HotIdle
    /\ DispIdle
    /\ backendFs \in ServeTrees
    /\ allBackendRoutes = <<>>
    /\ allWebSocketRoutes = <<>>
    /\ loadedMiddlewares = EmptyMap
    /\ chain = ChainIdle
    /\ allRoutes = <<PageRoute(P_about)>>
    /\ lookup = NoLookup
    /\ reload = NoReload

ServeNext ==
    \/ Connect("c1")
    \/ \E p \in {FilePage, FileApi} : WatcherEvent(p, "change")
    \/ \E p \in {FilePage, FileApi} :
         (isFrontendFile(p) => Len(waits) < MaxReloadWaits) /\ DebounceFire(p)
    \/ OnBuildComplete(TRUE)
    \/ \E w \in 1..Len(waits) : BuildTimeout(w)
    \/ \E w \in 1..Len(waits) : Continue(w)
    \/ \E pathname \in ServePaths : Request(pathname, "GET", FALSE)
    \/ RequestDone

\* Requests and backend changes while the build of a page change is awaited.
SpecServe == ServeInit /\ [][ServeNext]_vars

\* The timers of the event loop fire and queued continuations run.
SpecHotFair ==
    /\ SpecHot
    /\ WF_vars(\E w \in 1..Len(waits) : BuildTimeout(w))
    /\ WF_vars(\E w \in 1..Len(waits) : Continue(w))

(***************************************************************************)
(* Properties.                                                             *)
(***************************************************************************)
PendingWaits == {w \in 1..Len(waits) : Pending(w)}

\* C1: while a frontend build wait is pending, a second frontend change neither
\* invokes the rebuild trigger again nor registers a second waiter: at most one
\* wait is pending at every moment.
C1_AtMostOneWaiter ==
    /\ Cardinality(PendingWaits) <= 1
    /\ \A w \in 1..Len(waits) : waits[w].overlap => waits[w].trigger = 0

\* C2: a call of onBuildComplete releases every change that is waiting for the
\* build at that moment.
C2_CompletionReleasesAll ==
    [][completions' = completions + 1 =>
         \A w \in PendingWaits : waits'[w].state = "resolved"]_vars

\* C3: a wait ends at the latest when its timer fires, its change has broadcast
\* frontend-reload exactly once when it has ended and never before, and nothing
\* that happens later (a completion after the timeout) makes it broadcast again.
C3_ExactlyOneReload ==
    /\ [](\A w \in 1..Len(waits) :
            /\ waits[w].state = "done" => waits[w].reloads = 1
            /\ waits[w].state # "done" => waits[w].reloads = 0
            /\ (Pending(w) \/ waits[w].state = "resolved") => waits[w].timer)
    /\ \A w \in 1..MaxWaits :
         (w <= Len(waits) /\ Pending(w))
            ~> (w <= Len(waits) /\ waits[w].state = "done" /\ waits[w].reloads = 1)

\* Witness of C3: a wait that ended by its timeout, and a completion signal
\* after that.
C3_Witness ==
    \E w \in 1..Len(waits) :
        /\ waits[w].state = "done"
        /\ waits[w].endedBy = "timeout"
        /\ waits[w].reloads = 1
        /\ completions > waits[w].endedAt

\* C4: the notification sent for a debounced burst carries the kind of the last
\* watcher event of the burst.
C4_NotificationCarriesLastKind ==
    lastBroadcast.kind \in {"change", "add"} => lastBroadcast.event = lastBroadcast.kind

\* C5: a broadcast visits every client, sends to every open client whose send
\* does not throw, and leaves in the client set exactly the clients it sent to:
\* the previous set minus the failing and the non-open ones.
C5_BroadcastSweep ==
    [][lastBroadcast' # lastBroadcast =>
         LET b == lastBroadcast' IN
         /\ b.to = {c \in clients : readyState[c] = "OPEN" /\ c \notin b.threw}
         /\ b.to \cup b.dead = clients
         /\ clients' = clients \ (b.threw \cup {c \in clients : readyState[c] # "OPEN"})]_vars

\* Witness of C5: two sends threw and the third client received the message.
C5_Witness ==
    /\ Cardinality(lastBroadcast.threw) = 2
    /\ Cardinality(lastBroadcast.to) = 1
    /\ clients = lastBroadcast.to

\* C6: once the middleware at position i has returned without calling next, no
\* middleware after i and not the final handler has been executed, and the
\* response is the one of middleware i, wrapped by middlewares before i only.
C6_ShortCircuitStopsChain ==
    \A i \in chain.shortCircuit :
        /\ \A k \in 1..Len(chain.started) :
              chain.started[k] # FinalHandler /\ chain.started[k] <= i
        /\ chain.status = "done" =>
              /\ chain.result.origin = i
              /\ \A k \in 1..Len(chain.result.via) : chain.result.via[k] < i

\* The middlewares a directory's middleware file provides: none when the file is
\* absent or fails to load.
ListOf(m) == IF m.present /\ ~m.module.throws THEN ExportedMiddlewares(m.module) ELSE <<>>

\* The routes of the loaded table that came from a route file.
RoutesFrom(file) == {i \in 1..Len(allBackendRoutes) : allBackendRoutes[i].source = file}
FileOfA == NameA
FileOfB == PathJoin(NameAdmin, NameB)
FileOfC == PathJoin(PathJoin(NameAdmin, NameX), NameC)

\* C7: after loading, a route without a middleware property of its own carries
\* exactly the list of the middleware file of its own directory (none when the
\* directory has no such file), never the list of a parent or of a subdirectory.
C7_SameDirectoryMiddleware ==
    \A r \in RootMiddlewareFiles, a \in AdminMiddlewareFiles,
       x \in SubMiddlewareFiles, own \in OwnMiddleware :
        (backendFs = BackendTree(r, a, x, own) /\ allBackendRoutes # <<>>) =>
            /\ Cardinality(RoutesFrom(FileOfA)) = 1
            /\ Cardinality(RoutesFrom(FileOfB)) = 1
            /\ Cardinality(RoutesFrom(FileOfC)) = 1
            /\ \A i \in RoutesFrom(FileOfA) : allBackendRoutes[i].middleware = ListOf(r)
            /\ \A i \in RoutesFrom(FileOfC) : allBackendRoutes[i].middleware = ListOf(x)
            /\ ~own.has =>
                  \A i \in RoutesFrom(FileOfB) : allBackendRoutes[i].middleware = ListOf(a)

\* Witness of C7: every directory has its own middleware file and the three
\* routes, none with a middleware property, carry three different lists.
C7_Witness ==
    /\ Len(allBackendRoutes) = 3
    /\ \E i \in RoutesFrom(FileOfA) : allBackendRoutes[i].middleware = <<"rootMw">>
    /\ \E i \in RoutesFrom(FileOfB) : allBackendRoutes[i].middleware = <<"adminA", "adminB">>
    /\ \E i \in RoutesFrom(FileOfC) : allBackendRoutes[i].middleware = <<"subMw">>

\* C8: a route with a middleware property of its own keeps exactly that list,
\* whatever middleware file its directory has, and a request for a route that
\* declares the empty list runs the final handler and no middleware.
C8_OwnMiddlewareKept ==
    \A r \in RootMiddlewareFiles, a \in AdminMiddlewareFiles,
       x \in SubMiddlewareFiles, own \in OwnMiddleware :
        (backendFs = BackendTree(r, a, x, own) /\ allBackendRoutes # <<>> /\ own.has) =>
            \A i \in RoutesFrom(FileOfB) :
                /\ allBackendRoutes[i].middleware = own.list
                /\ (chain.route = i /\ own.list = <<>>) =>
                      /\ chain.status = "done"
                      /\ chain.started = <<FinalHandler>>
                      /\ chain.result = Response(FinalHandler)

\* Witness of C8: the directory of the route has a middleware file that exports
\* middlewares, the route declares the empty list, and a request for it was
\* answered by the final handler alone.
C8_Witness ==
    /\ \E d \in DOMAIN loadedMiddlewares :
          /\ d = PathJoin(BackendRoutesDir, NameAdmin)
          /\ Len(loadedMiddlewares[d]) > 0
    /\ \E i \in RoutesFrom(FileOfB) :
          /\ allBackendRoutes[i].hasMiddleware
          /\ allBackendRoutes[i].middleware = <<>>
          /\ chain.route = i
          /\ chain.status = "done"
          /\ chain.started = <<FinalHandler>>

\* The routes a lookup may return: the pattern matches the path and, for an API
\* lookup, the route has a handler for the method.
PatternMatches(re, pathname) == ~RegExpThrows(re) /\ RegexMatch(re, pathname).ok
Candidates ==
    IF lookup.kind = "page"
    THEN {i \in 1..Len(allRoutes) :
            PatternMatches(PageRegexPattern(allRoutes[i].pattern), lookup.path)}
    ELSE IF lookup.kind = "api"
    THEN {i \in 1..Len(allBackendRoutes) :
            /\ lookup.method \in allBackendRoutes[i].methods
            /\ PatternMatches(BackendRegexPattern(allBackendRoutes[i].pattern), lookup.path)}
    ELSE {i \in 1..Len(allWebSocketRoutes) :
            PatternMatches(SocketRegexPattern(allWebSocketRoutes[i].pattern), lookup.path)}
First(S) == CHOOSE i \in S : \A j \in S : i <= j
PathPostNew == PathOf(<<W_post, W_new>>)
ParamId == <<"i", "d">>

\* C9: a lookup returns the first route in table order whose pattern matches
\* (and, for an API lookup, that handles the method), and no route when none
\* matches; with /post/[id] before /post/new, /post/new gives /post/[id] with
\* id = "new".
C9_FirstMatchWins ==
    lookup.kind # "none" =>
        /\ IF Candidates = {}
           THEN lookup.result.status = "null"
           ELSE /\ lookup.result.status = "match"
                /\ lookup.result.index = First(Candidates)
        /\ (/\ lookup.kind = "page"
            /\ allRoutes = <<PageRoute(PostId), PageRoute(PostNew)>>
            /\ lookup.path = PathPostNew) =>
              /\ lookup.result.status = "match"
              /\ lookup.result.index = 1
              /\ lookup.result.params[ParamId] = Captured(W_new)

\* p without its trailing slash, if it has one.
StripSlash(p) == IF Len(p) > 0 /\ p[Len(p)] = "/" THEN SubSeq(p, 1, Len(p) - 1) ELSE p
UsersSlash == PathOf(<<W_users>>) \o SLASH
\* What follows "/users/" in the looked-up path, the trailing slash left out.
AfterUsers == SubSeq(StripSlash(lookup.path), Len(UsersSlash) + 1, Len(StripSlash(lookup.path)))
FirstPattern == IF lookup.kind = "page" THEN allRoutes[1].pattern
                ELSE IF lookup.kind = "api" THEN allBackendRoutes[1].pattern
                ELSE allWebSocketRoutes[1].pattern

\* C10: /users/[id] matches a path exactly when the path is /users/ followed by
\* one non-empty component, which is the value of id: it matches /users/42 with
\* id = "42" and matches neither /users nor /users/42/edit.
C10_RequiredSegment ==
    (lookup.kind # "none" /\ lookup.method # "POST" /\ FirstPattern = UsersId) =>
        LET hit == lookup.result.status = "match" /\ lookup.result.index = 1 IN
        /\ hit <=> /\ StartsWith(lookup.path, UsersSlash)
                   /\ AfterUsers # <<>>
                   /\ \A k \in 1..Len(AfterUsers) : AfterUsers[k] # "/"
        /\ hit => lookup.result.params[ParamId] = Captured(AfterUsers)
        /\ lookup.path = PathOf(<<W_users, W_n42>>) =>
              hit /\ lookup.result.params[ParamId] = Captured(W_n42)
        /\ lookup.path \in {PathOf(<<W_users>>), PathOf(<<W_users, W_n42, W_edit>>)} => ~hit

\* Witness of C10: /users/42 was looked up in a table that begins with
\* /users/[id] and gave that route with id = "42".
C10_Witness ==
    /\ lookup.kind = "page"
    /\ allRoutes[1].pattern = UsersId
    /\ lookup.path = PathOf(<<W_users, W_n42>>)
    /\ lookup.result.status = "match"
    /\ lookup.result.index = 1
    /\ lookup.result.params[ParamId] = Captured(W_n42)

ParamSlug == <<"s", "l", "u", "g">>
DocsSlash == PathOf(<<W_docs>>) \o SLASH
\* What follows "/docs/" in the looked-up path, the trailing slash left out: the
\* trailing components joined by "/".
AfterDocs == SubSeq(StripSlash(lookup.path), Len(DocsSlash) + 1, Len(StripSlash(lookup.path)))
Hit == lookup.result.status = "match" /\ lookup.result.index = 1

\* C11: /docs/[...slug] matches a path exactly when one or more components
\* follow /docs, and slug is those components joined by "/": /docs/a/b/c gives
\* slug = "a/b/c" and /docs does not match.
C11_RequiredCatchAll ==
    (lookup.kind # "none" /\ lookup.method # "POST" /\ FirstPattern = DocsSlug) =>
        /\ Hit <=> (StartsWith(lookup.path, DocsSlash) /\ AfterDocs # <<>>)
        /\ Hit => lookup.result.params[ParamSlug] = Captured(AfterDocs)
        /\ lookup.path = PathOf(<<W_docs, W_a, W_b, W_c>>) =>
              Hit /\ lookup.result.params[ParamSlug] = Captured(Join(<<W_a, W_b, W_c>>, SLASH))
        /\ lookup.path = PathOf(<<W_docs>>) => ~Hit

\* C12: /docs/[[...slug]] matches /docs with slug undefined and matches every
\* path with components after /docs, slug being those components joined by "/":
\* /docs/a/b gives slug = "a/b".
C12_OptionalCatchAll ==
    (lookup.kind # "none" /\ lookup.method # "POST" /\ FirstPattern = DocsOptSlug) =>
        /\ lookup.path = PathOf(<<W_docs>>) =>
              Hit /\ lookup.result.params[ParamSlug] = Undefined
        /\ lookup.path = PathOf(<<W_docs, W_a, W_b>>) =>
              Hit /\ lookup.result.params[ParamSlug] = Captured(Join(<<W_a, W_b>>, SLASH))

\* C13: for page, API and socket routes alike, /users/[[id]] matches /users (the
\* segment absent, no trailing slash) and /users/42 (the segment present).
C13_OptionalSegment ==
    (lookup.kind # "none" /\ lookup.method # "POST" /\ FirstPattern = UsersOptId) =>
        /\ lookup.path = PathOf(<<W_users>>) =>
              Hit /\ lookup.result.params[ParamId] = Undefined
        /\ lookup.path = PathOf(<<W_users, W_n42>>) =>
              Hit /\ lookup.result.params[ParamId] = Captured(W_n42)

\* C14: a route whose pattern uses a parameter name twice is not in the loaded
\* table, and no request fails because of it: lookups among the other routes
\* still give their result.
C14_DuplicateNameRejected ==
    /\ \A i \in 1..Len(allBackendRoutes) :
          ~RegExpThrows(BackendRegexPattern(allBackendRoutes[i].pattern))
    /\ chain.status # "throw"

\* The API routes that could serve the last request: the pattern matches the
\* path and the route has a handler for the method.
ApiCandidates ==
    {i \in 1..Len(allBackendRoutes) :
        /\ response.method \in allBackendRoutes[i].methods
        /\ PatternMatches(BackendRegexPattern(allBackendRoutes[i].pattern), response.path)}
\* The API routes whose pattern matches the path but that have no handler for
\* the method.
MethodMismatches ==
    {i \in 1..Len(allBackendRoutes) :
        /\ response.method \notin allBackendRoutes[i].methods
        /\ PatternMatches(BackendRegexPattern(allBackendRoutes[i].pattern), response.path)}
PageCandidates ==
    {i \in 1..Len(allRoutes) :
        PatternMatches(PageRegexPattern(allRoutes[i].pattern), response.path)}
ReachedRouting == response.via \in {"api", "page", "notfound"}

\* C15: a request that reaches API lookup is served by the first API route that
\* matches the path and handles the method, routes without a handler for the
\* method being passed over; when there is no such route the request goes to
\* page routing (a page or the 404 page) and is never answered 405.
C15_MethodMismatchSkipped ==
    ReachedRouting =>
        /\ response.status # "405"
        /\ IF ApiCandidates # {}
           THEN response.via = "api" /\ response.route = First(ApiCandidates)
           ELSE /\ response.via \in {"page", "notfound"}
                /\ response.via = "page" <=> PageCandidates # {}

\* Witness of C15: the first API route matches the path but has no handler for
\* the method, and the request was served by the route after it.
C15_Witness ==
    /\ response.via = "api"
    /\ response.route = 2
    /\ 1 \in MethodMismatches

\* A static asset exists for the path of the last request.
AssetExists ==
    \/ response.path \in publicFiles
    \/ StartsWith(response.path, HightPrefix) /\ HightName(response.path) \in hightFiles

\* C16: a request for a path that has a static asset is answered with the
\* asset, whatever API or page route matches the path; an API route answers
\* only when there is no asset, a page or the 404 page only when in addition no
\* API route serves the request.
C16_StaticFirst ==
    response.via \notin {"none", "upgrade"} =>
        /\ AssetExists => response.via \in {"public", "hight"}
        /\ response.via = "api" => ~AssetExists
        /\ response.via \in {"page", "notfound"} => (~AssetExists /\ ApiCandidates = {})

\* The socket routes whose pattern matches the path of the upgrade request.
SocketCandidates ==
    {i \in 1..Len(allWebSocketRoutes) :
        PatternMatches(SocketRegexPattern(allWebSocketRoutes[i].pattern), upgraded.path)}
\* The params of the upgrade path under socket route i of the upgrade model:
\* /[slug] binds slug to the single component of the path.
ParamsUnder(i) ==
    IF allWebSocketRoutes[i].pattern = P_slug
    THEN [n \in {ParamSlug} |->
            Captured(SubSeq(StripSlash(upgraded.path), 2, Len(StripSlash(upgraded.path))))]
    ELSE <<>>
DeliveredToFirst ==
    IF SocketCandidates = {}
    THEN upgraded.to = "destroyed"
    ELSE /\ upgraded.to = "route"
         /\ upgraded.route = First(SocketCandidates)
         /\ upgraded.params = ParamsUnder(First(SocketCandidates))

\* C17: an upgrade request for the reserved notification path is delegated to
\* the client fan-out channel and never delivered to a user socket route, even
\* when a user route pattern matches the path; any other upgrade request is
\* delivered to the first matching user socket route with its extracted params,
\* and its socket is destroyed when no route matches.
C17_UpgradeRouting ==
    upgraded.to # "none" =>
        IF upgraded.path = HotReloadPath
        THEN upgraded.to = "fanout"
        ELSE DeliveredToFirst

\* C17 (amended): the routing holds once a framework adapter is set; without
\* one every upgrade socket is destroyed.  The reserved path is never delivered
\* to a user route: it is accepted by the fan-out channel when the server has a
\* hot-reload manager that is not shutting down, and destroyed otherwise.
C17_UpgradeRoutingGuarded ==
    upgraded.to # "none" =>
        IF ~upgraded.adapter
        THEN upgraded.to = "destroyed"
        ELSE IF upgraded.path = HotReloadPath
        THEN IF upgraded.manager /\ ~upgraded.shutting
             THEN upgraded.to = "fanout"
             ELSE upgraded.to = "destroyed"
        ELSE DeliveredToFirst

\* The reserved path went to the fan-out channel although the first user socket
\* route matches it.
C17_Witness ==
    /\ upgraded.to = "fanout"
    /\ upgraded.path = HotReloadPath
    /\ SocketCandidates # {}

\* A heartbeat tick of socket c: its timer was rescheduled.
TickOf(c) == beat[c].armed /\ beat'[c].armed /\ beat'[c].due # beat[c].due
Live(c) == c \in clients /\ readyState[c] = "OPEN"
\* An accepted open connection has an armed timer and was accepted or pinged no
\* longer ago than one interval (and the lateness of a timer).
PingedEveryInterval ==
    \A c \in BeatConns :
        Live(c) => /\ beat[c].armed
                   /\ beat[c].due = beat[c].last + HeartbeatInterval
                   /\ now - beat[c].last <= HeartbeatInterval + MaxLate
\* At a tick of a live connection: terminated when the last pong is more than
\* 60,000 ms old, pinged otherwise.
TickTerminatesStale ==
    \A c \in BeatConns :
        (TickOf(c) /\ Live(c)) =>
            IF now - beat[c].lastPong > 60000
            THEN readyState'[c] = "CLOSING" /\ beat'[c].terminated
            ELSE /\ readyState'[c] = "OPEN"
                 /\ beat'[c].unanswered /\ beat'[c].last = now
                 /\ ~beat'[c].terminated
\* A connection the heartbeat terminated had left a ping unanswered.
ResponsiveNeverTerminated ==
    \A c \in BeatConns : beat[c].terminated => beat[c].missed

\* C18: every accepted connection is pinged every 30,000 ms; a connection whose
\* last pong is more than 60,000 ms old at a heartbeat tick is terminated and
\* then removed from the client set; a connection that answers every ping is
\* never terminated by the heartbeat.
C18_Heartbeat ==
    /\ [](PingedEveryInterval /\ ResponsiveNeverTerminated)
    /\ [][TickTerminatesStale]_vars
    /\ \A c \in BeatConns : beat[c].terminated ~> (c \notin clients)

\* The heartbeat terminated one connection while another, which answered every
\* ping, is still open after three intervals.
C18_Witness ==
    /\ beat["c1"].terminated
    /\ Live("c2") /\ ~beat["c2"].missed
    /\ now - beat["c2"].lastPong <= HeartbeatInterval
    /\ now >= 3 * HeartbeatInterval

\* The calls of a remove event.
UnlinkCalls ==
    <<Call("clearFileCache"), Call("clearBackendCache"), Call("frontendChangeCallback"),
      Call("backendApiChangeCallback"), Notify("src-reload")>>
\* The step handled a remove event.
UnlinkStep == trace'.event = "unlink" /\ trace' # trace

\* C19: a remove event is not debounced: the step that observes it invalidates
\* the caches for the path, invokes the frontend and the backend reload callback
\* and broadcasts src-reload, whatever debounce timers are armed and whatever
\* build waits are pending; it arms no timer and starts no wait.
C19_UnlinkNotDebounced ==
    [][UnlinkStep =>
        /\ trace'.calls = UnlinkCalls
        /\ debounceTimers' = debounceTimers
        /\ waits' = waits
        /\ clients # {} =>
             /\ lastBroadcast'.type = "src-reload"
             /\ lastBroadcast'.file = trace'.file
             /\ lastBroadcast'.event = "unlink"
             /\ lastBroadcast'.to \cup lastBroadcast'.dead = clients]_vars

\* A remove event was broadcast while a debounce timer was armed and a build
\* wait was pending.
C19_Witness ==
    /\ trace.event = "unlink"
    /\ lastBroadcast.type = "src-reload" /\ lastBroadcast.event = "unlink"
    /\ lastBroadcast.to # {}
    /\ \E p \in Files : debounceTimers[p]
    /\ \E w \in 1..Len(waits) : Pending(w)

\* The reload type the classification rules give each watched file: a .tsx file
\* under src/backend is a frontend file.
ExpectedType(p) ==
    IF p \in {FilePage, FileApiTsx} THEN "frontend-reload"
    ELSE IF p = FileApi THEN "backend-api-reload"
    ELSE "src-reload"
\* The classes the handler's two tests put a path in.
Classes(p) ==
    {k \in {"frontend", "backend", "unclassified"} :
        \/ k = "frontend" /\ isFrontendFile(p)
        \/ k = "backend" /\ isBackendFile(p)
        \/ k = "unclassified" /\ ~isFrontendFile(p) /\ ~isBackendFile(p)}
\* The notifyClients calls among calls, and the position of a call.
Notifies(calls) == SelectSeq(calls, LAMBDA c : c.fn = "notifyClients")
Position(calls, fn) == CHOOSE i \in 1..Len(calls) : calls[i].fn = fn
Calls(calls) == {calls[i].fn : i \in 1..Len(calls)}

\* C20: every debounced change is classified as exactly one of frontend, backend
\* or unclassified, frontend rules first, and gives exactly one reload broadcast
\* of the matching type (for a frontend change, the one made when its build wait
\* ends); an unclassified change invokes the frontend and the backend reload
\* callback before it broadcasts src-reload.
C20_OneBroadcastPerChange ==
    /\ trace.event = "change" => Cardinality(Classes(trace.file)) = 1
    /\ trace.event = "change" =>
         IF ExpectedType(trace.file) = "frontend-reload"
         THEN Notifies(trace.calls) = <<>>
         ELSE Notifies(trace.calls) = <<Notify(ExpectedType(trace.file))>>
    /\ (trace.event = "change" /\ ExpectedType(trace.file) = "src-reload") =>
         /\ {"frontendChangeCallback", "backendApiChangeCallback"} \subseteq Calls(trace.calls)
         /\ Position(trace.calls, "frontendChangeCallback")
              < Position(trace.calls, "notifyClients")
         /\ Position(trace.calls, "backendApiChangeCallback")
              < Position(trace.calls, "notifyClients")
    /\ trace.event = "continuation" =>
         /\ ExpectedType(trace.file) = "frontend-reload"
         /\ Notifies(trace.calls) = <<Notify("frontend-reload")>>
    /\ \A w \in 1..Len(waits) :
         /\ ExpectedType(waits[w].file) = "frontend-reload"
         /\ waits[w].reloads = IF waits[w].state = "done" THEN 1 ELSE 0

\* A change of the .tsx file under src/backend was broadcast as frontend-reload
\* at the end of its wait.
C20_Witness ==
    /\ trace.event = "continuation"
    /\ trace.file = FileApiTsx
    /\ lastBroadcast.type = "frontend-reload"
    /\ lastBroadcast.to # {}

\* A request that reached the API step has ended.
Finished == chain.status \in {"done", "error", "throw"}

C21_Answered ==
    /\ Finished =>
         /\ chain.status = "error" <=> chain.raised # <<>>
         /\ chain.status = "error" <=> chain.result.threw
         /\ chain.status # "throw"
    /\ chain.raised # <<>> => Len(chain.started) = chain.raised[1]

\* The request after a 500 leaves the state it leaves on a server that never
\* failed.
C21_NextDispatched ==
    chain.status = "error" /\ chain' # chain =>
        \E pathname \in ApiPaths :
            LET m == findMatchingBackendRoute(allBackendRoutes, pathname, "GET") IN
            IF m.status = "match"
            THEN \E b \in Behaviours \cup ThrowingBehaviours, h \in BOOLEAN :
                   chain' = [StartChain(m.index, allBackendRoutes[m.index].middleware, b, h)
                               EXCEPT !.afterError = TRUE]
            ELSE chain' = [ChainIdle EXCEPT !.status = "nomatch", !.afterError = TRUE]

\* C21: an error thrown by a middleware or by the final handler of an API route
\* is caught for that request and answered 500: the request ends with the 500
\* answer exactly when something threw, and the error never leaves the request
\* handler; nothing of the chain is started after the error; and the request
\* that follows the 500 is dispatched as it is on a server that never failed.
C21_ErrorAnswered500 == [](C21_Answered) /\ [][C21_NextDispatched]_vars

\* A request was answered 500, and the request after it ran its two middlewares
\* and was served by its handler.
C21_Witness ==
    /\ chain.afterError
    /\ chain.status = "done"
    /\ chain.result = Response(FinalHandler)
    /\ Len(chain.started) = 3

\* The last request was answered, and no static asset, API route or page route
\* matches it.
NothingMatches ==
    /\ response.via \notin {"none", "upgrade"}
    /\ ~AssetExists
    /\ ApiCandidates = {}
    /\ PageCandidates = {}

LookupMade == lookup.kind = "none" /\ lookup'.kind # "none"
\* Whenever no rebuild is running, the tables are those the last rebuild gives.
TablesComplete == reload.pc = "idle" => Tables = reload.after

\* C23: a rebuild of a route table is atomic: whatever the interleaving of
\* rebuilds and lookups, every lookup in the page, the API or the socket table
\* iterates the complete table from before the rebuild or the complete table from
\* after it, and returns what that table gives.
C23_ReloadAtomic ==
    /\ [](TablesComplete)
    /\ [][LookupMade =>
            /\ Tables[lookup'.kind] \in {reload.before[lookup'.kind], reload.after[lookup'.kind]}
            /\ lookup'.result \in {Find(lookup'.kind, reload.before, lookup'.path),
                                   Find(lookup'.kind, reload.after, lookup'.path)}]_vars

\* A socket lookup found its route in the table of a rebuild that replaced a
\* different, non-empty socket table.
C23_Witness ==
    /\ lookup.kind = "socket"
    /\ lookup.result.status = "match"
    /\ reload.pc = "idle"
    /\ reload.before.socket # <<>>
    /\ reload.after.socket # reload.before.socket
    /\ allWebSocketRoutes = reload.after.socket

\* C24: a browser that receives src-reload makes a full page reload, as one
\* that receives backend-api-reload does: every broadcast of an unclassified
\* change or of a file removal that reaches a browser reloads it.
C24_SrcReloadReloads ==
    (lastBroadcast.to # {} /\ lastBroadcast.type \in {"src-reload", "backend-api-reload"}) =>
        onmessage(lastBroadcast) = "reload"

\* C25: of the completion signal and the timeout, the first ends the wait and
\* the other is discarded: a wait that has ended has no armed timeout timer
\* (completion cancels the timer at once), and its continuation has run exactly
\* once when it is done.
C25_TimeoutCancelled ==
    \A w \in 1..Len(waits) :
        /\ ~Pending(w) => ~waits[w].timer
        /\ waits[w].state = "done" => waits[w].reloads = 1

\* The middlewares started so far, in the order in which they started.
MiddlewareStarts == SelectSeq(chain.started, LAMBDA x : x # FinalHandler)
\* The middlewares that had started when the i-th element of the chain started.
StartedBefore(i) == SelectSeq(SubSeq(chain.started, 1, i - 1), LAMBDA x : x # FinalHandler)

\* C26: the middlewares of a route start in list order, each at most once, and
\* the final handler starts only after the last middleware has started and
\* called next; when every middleware that ran called next and nothing threw,
\* every middleware of the list has started exactly once and the handler has
\* run; with an empty or absent list the handler is called directly.
C26_ListOrder ==
    chain.status \in {"running", "done", "error"} =>
        /\ MiddlewareStarts = [i \in 1..Len(MiddlewareStarts) |-> i]
        /\ Len(MiddlewareStarts) <= Len(chain.mws)
        /\ \A i \in 1..Len(chain.started) :
              chain.started[i] = FinalHandler => Len(StartedBefore(i)) = Len(chain.mws)
        /\ (chain.status = "done" /\ chain.shortCircuit = {} /\ chain.raised = <<>>) =>
              /\ Len(MiddlewareStarts) = Len(chain.mws)
              /\ chain.started[Len(MiddlewareStarts) + 1] = FinalHandler
        /\ (chain.status # "running" /\ chain.mws = <<>>) => chain.started = <<FinalHandler>>

\* Both middlewares of a route called next and the request was served: the
\* first, the second, then the handler.
C26_Witness ==
    /\ chain.status = "done"
    /\ Len(chain.mws) = 2
    /\ chain.shortCircuit = {}
    /\ chain.started = <<1, 2, FinalHandler>>

\* The step broadcasts the frontend-reload of wait w.
ReloadOf(w) == Len(waits') = Len(waits) /\ waits'[w].reloads = waits[w].reloads + 1

\* C27: the frontend-reload of a frontend change is not broadcast before the
\* wait of that change has ended, by an onBuildComplete call that followed the
\* change or by its timeout; when onBuildComplete ended the wait, build-complete
\* or build-error was broadcast just before the frontend-reload; and once a wait
\* has ended its frontend-reload is the next thing to happen, whether the build
\* succeeded or failed.
C27_ReloadAfterWait ==
    [][\A w \in 1..Len(waits) :
        /\ ReloadOf(w) =>
             /\ Queued(w)
             /\ waits[w].state = "resolved" => completions > waits[w].endedAt
             /\ waits[w].state = "rejected" => ~waits[w].timer
             /\ (waits[w].state = "resolved" /\ clients # {} /\ ~isShuttingDown) =>
                  /\ lastBroadcast.type \in {"build-complete", "build-error"}
                  /\ lastBroadcast'.type = "frontend-reload"
        /\ (Queued(w) /\ waits' # waits) => ReloadOf(w)]_vars

\* A build completion ended a wait and its frontend-reload reached a browser.
C27_Witness ==
    /\ Len(waits) > 0
    /\ waits[1].state = "done"
    /\ waits[1].endedBy = "complete"
    /\ waits[1].reloads = 1
    /\ lastBroadcast.type = "frontend-reload"
    /\ lastBroadcast.to # {}

\* C28: in every reachable state, isBuilding is true and a completion resolver
\* is registered whenever some frontend change is still waiting for its build,
\* and both are reset once no change is waiting or about to continue.
C28_BuildStateFollowsWaits ==
    /\ (\E w \in 1..Len(waits) : Pending(w)) => (isBuilding /\ buildCompleteResolve # 0)
    /\ (\A w \in 1..Len(waits) : waits[w].state = "done") =>
          (~isBuilding /\ buildCompleteResolve = 0)

\* A frontend change is waiting for its build.
BuildAwaited == \E w \in 1..Len(waits) : Pending(w)
\* The debounce timer of the API route file fires in this step.
BackendChangeHandled == debounceTimers[FileApi] /\ ~debounceTimers'[FileApi]
\* The tables a complete reload of the backend directory gives.
ReloadedRoutes ==
    LoadRouteFiles(scanDirectory(backendFs, <<>>,
                                 [routeFiles |-> <<>>, middlewareFiles |-> EmptyMap]).routeFiles,
                   EmptyMap)

\* While a build is awaited nothing holds back a request or, once the event
\* loop is free of queued continuations, the handler of a backend change.
C29_NotHeldBack ==
    BuildAwaited =>
        /\ response.via = "none" =>
             \A pathname \in ServePaths : Handle(pathname, "GET", FALSE) # {}
        /\ (NoMicrotask /\ debounceTimers[FileApi]) => MayFire(FileApi)

\* A request or a backend change handled while a build is awaited is handled
\* completely in its own step, and the wait goes on.
C29_HandledAtOnce ==
    BuildAwaited =>
        /\ (response.via = "none" /\ response'.via # "none") =>
             /\ response'.via \in {"api", "page", "notfound"}
             /\ response'.via = "api" <=> (response'.path = PatternA /\ allBackendRoutes # <<>>)
             /\ waits' = waits
        /\ BackendChangeHandled =>
             /\ trace'.calls = <<Call("clearFileCache"), Call("clearBackendCache"),
                                 Call("backendApiChangeCallback"), Notify("backend-api-reload")>>
             /\ allBackendRoutes' = ReloadedRoutes
             /\ allBackendRoutes' # <<>>
             /\ allWebSocketRoutes' = processWebSocketRoutes(ReloadedRoutes)
             /\ allWebSocketRoutes' # <<>>
             /\ clients # {} => /\ lastBroadcast'.type = "backend-api-reload"
                                /\ lastBroadcast'.file = FileApi
             /\ waits' = waits

\* C29: while a frontend build wait is pending, HTTP requests are dispatched and
\* a backend change of another path is processed completely (API and socket
\* tables reloaded, backend-api-reload broadcast), without waiting for the build
\* to end or for the timeout.
C29_NothingWaitsForBuild == [](C29_NotHeldBack) /\ [][C29_HandledAtOnce]_vars

\* While the build of the page change is awaited, the new API route was loaded
\* and broadcast, and a request was answered by it.
C29_Witness ==
    /\ BuildAwaited
    /\ trace.file = FileApi /\ trace.event = "change"
    /\ lastBroadcast.type = "backend-api-reload" /\ lastBroadcast.to # {}
    /\ response.via = "api"

\* The result of the last lookup repeated with a trailing slash added to the path.
WithSlash ==
    IF lookup.kind = "page" THEN findMatchingRoute(allRoutes, lookup.path \o SLASH)
    ELSE IF lookup.kind = "api"
    THEN findMatchingBackendRoute(allBackendRoutes, lookup.path \o SLASH, lookup.method)
    ELSE findMatchingWebSocketRoute(allWebSocketRoutes, lookup.path \o SLASH)

\* C30: a trailing slash does not change the result: for a path p that does not
\* end in "/", the lookup of p/ finds a route exactly when the lookup of p does,
\* the same route with the same parameter values.
C30_TrailingSlashTolerated ==
    (lookup.kind # "none" /\ ~EndsWith(lookup.path, SLASH)) => WithSlash = lookup.result

\* One step keeps the two kinds of connection apart: a socket joins the client
\* set only on the reserved path and the user set only on another path, a
\* notification goes to clients only, and a context's broadcast to none of them.
C31_StepKeepsApart ==
    /\ \A c \in Conns :
         /\ (c \in clients' /\ c \notin clients) => upgraded'.path = HotReloadPath
         /\ (c \in wsConnections' /\ c \notin wsConnections)
               => upgraded'.path # HotReloadPath
    /\ lastBroadcast' # lastBroadcast
          => /\ lastBroadcast'.to \subseteq clients
             /\ lastBroadcast'.to \cap wsConnections = {}
    /\ wsContext'.sent # wsContext.sent => wsContext'.sent.to \cap clients = {}

\* C31: notification connections and user socket connections are disjoint: a
\* notification is sent only to connections accepted on the reserved path, and a
\* broadcast from the context of a user socket route never reaches a
\* notification connection.
C31_ChannelsDisjoint == [](clients \cap wsConnections = {}) /\ [][C31_StepKeepsApart]_vars

\* A browser is connected to the reserved path and was notified, and a user
\* socket broadcast while that browser was connected.
C31_Witness ==
    /\ \E c \in clients : readyState[c] = "OPEN" /\ c \in lastBroadcast.to
    /\ wsContext.sent.from \in wsConnections
    /\ wsContext.sent.exclude = {}
    /\ wsContext.sent.to # {}

\* C38: a broadcast from the context of a connection on user route R is
\* delivered only to open connections accepted on route R, minus the excluded
\* ones; connections of other user routes do not receive it.
C38_BroadcastWithinRoute ==
    wsContext.sent.from # ""
        => /\ wsContext.sent.toRoutes \subseteq {wsContext.sent.route}
           /\ wsContext.sent.to \cap wsContext.sent.exclude = {}

\* C39: the middleware list of a user socket route is executed, in order, before
\* the socket handler of an accepted connection.
C39_MiddlewareBeforeHandler ==
    \A c \in wsConnections :
        wsContext.ran[c] = wsContext.route[c].middleware \o <<"handler">>

\* How often the element x of the chain (a middleware or the final handler) has
\* started in the current execution.
Starts(x) == Len(SelectSeq(chain.started, LAMBDA y : y = x))

\* C32: within one chain execution the final handler runs at most once and each
\* middleware at most once, however many times a middleware calls next.
C32_EachAtMostOnce ==
    \A x \in {FinalHandler} \cup (1..Len(chain.mws)) : Starts(x) <= 1

\* A step that ends the wait w (its continuation runs to the finally block), and
\* a step that is a call of onBuildComplete.
EndsWait(w) == w <= Len(waits) /\ Queued(w) /\ waits'[w].state = "done"
CompletionCall == completions' = completions + 1

\* The end of a wait leaves the resolver of another pending wait registered, and
\* a completion call releases a pending wait that began after a timed-out one.
C33_StepKeepsResolver ==
    /\ \A w \in 1..Len(waits) :
          (/\ EndsWait(w)
           /\ buildCompleteResolve \notin {0, w}
           /\ Pending(buildCompleteResolve)) => buildCompleteResolve' = buildCompleteResolve
    /\ CompletionCall =>
          \A w \in 1..Len(waits) :
             (Pending(w) /\ \E v \in 1..(w - 1) : waits[v].endedBy = "timeout")
                 => waits'[w].state = "resolved"

\* C33: the end of one build wait never removes the resolver registered by a
\* different pending wait: after an earlier wait times out, a later pending wait
\* is still released by the next onBuildComplete.
C33_ResolverSurvives == [][C33_StepKeepsResolver]_vars

\* C34: after a remove event for a path no debounced change callback runs for
\* that path unless a new change or add event arrives after the removal: a
\* debounce timer that was pending at the removal does not fire a change for
\* the removed file.
C34_NoChangeAfterRemoval ==
    /\ lastBroadcast.event = "change" => lastBroadcast.kind # "unlink"
    /\ \A w \in 1..Len(waits) : waits[w].kind # "unlink"

\* C35: the armed heartbeat timers correspond one to one to the connections in
\* the client set: whatever removes a connection (its close or error event, a
\* failed send during a broadcast, stop) clears its timer.
C35_TimerPerClient == \A c \in Conns : beat[c].armed <=> c \in clients

\* A broadcast removed a connection whose send failed and one that was no longer
\* open, and another browser is still connected.
C35_Witness ==
    /\ lastBroadcast.threw # {}
    /\ lastBroadcast.dead \ lastBroadcast.threw # {}
    /\ \A c \in lastBroadcast.dead : c \notin clients /\ ~beat[c].armed
    /\ \E c \in clients : beat[c].armed

\* Once the manager is shutting down it stays so, no socket joins the client
\* set and nothing is broadcast.
C36_StepAfterStop ==
    isShuttingDown => /\ isShuttingDown'
                      /\ clients' = {}
                      /\ lastBroadcast' = lastBroadcast

\* C36: after stop() the client set is empty and stays empty (later upgrades
\* are refused), and no notification is sent to any connection, whatever
\* changes, build completions or timers occur afterwards.
C36_StoppedStaysSilent == [](isShuttingDown => clients = {}) /\ [][C36_StepAfterStop]_vars

\* stop() closed the connected browser, and a build completion that arrived
\* afterwards released a waiting change.
C36_Witness ==
    /\ isShuttingDown
    /\ readyState["c1"] = "CLOSING"
    /\ \E w \in 1..Len(waits) : waits[w].state = "resolved"

\* The reload callbacks among the calls of a handler.
ReloadCalls(calls) ==
    SelectSeq(calls, LAMBDA c : c.fn \in {"frontendChangeCallback",
                                          "backendApiChangeCallback"})

\* Once the manager is shutting down, no handler that runs calls a reload
\* callback.
C37_StepAfterStop ==
    (isShuttingDown /\ trace' # trace) => ReloadCalls(trace'.calls) = <<>>

\* C37: after stop() neither reload callback is invoked again: the pending
\* debounce timers are cancelled, and a change that was waiting for a build when
\* stop() was called does not regenerate the route tables afterwards.
C37_NoReloadAfterStop ==
    [](isShuttingDown => \A p \in Files : ~debounceTimers[p]) /\ [][C37_StepAfterStop]_vars

\* The routes of an API table that declare a WS handler, in table order, each
\* with its pattern and middleware.
Declaring(routes) ==
    LET ws == SelectSeq(routes, LAMBDA r : "WS" \in r.methods)
    IN  [i \in 1..Len(ws) |-> [pattern |-> ws[i].pattern, middleware |-> ws[i].middleware]]

\* C40: after every completed reload step the socket route table is exactly the
\* sequence of the routes of the current API table that declare a WS handler,
\* in the same order, with the same pattern and middleware; no lookup for a
\* request or an upgrade sees a socket table derived from an older API table.
C40_SocketTableCurrent ==
    /\ [](MayRun => allWebSocketRoutes = Declaring(allBackendRoutes))
    /\ [][LookupMade => allWebSocketRoutes = Declaring(allBackendRoutes)]_vars

\* After a rebuild that replaced a non-empty API table, the socket table holds
\* the route with its middleware and not the route without a WS handler, and an
\* upgrade lookup was made in it.
C40_Witness ==
    /\ reload.pc = "idle"
    /\ reload.before.api # <<>>
    /\ reload.before.api # allBackendRoutes
    /\ Len(allBackendRoutes) = 2
    /\ Len(allWebSocketRoutes) = 1
    /\ allWebSocketRoutes[1].middleware # <<>>
    /\ lookup.kind = "socket"

====
